---- MODULE Spec2Model ----
(***************************************************************************)
(* fm-cli: the Local Store (internal/storage/db.go), the Remote Adapter    *)
(* (internal/api/jmap.go), the commands that join them and the            *)
(* Model.Update state machine that issues them (internal/tui, the          *)
(* storage-aware version of app.go).                                       *)
(*                                                                         *)
(* Specifications:                                                         *)
(*   SpecSaveEmails  the store under sequences of SaveEmails calls         *)
(*   SpecReplay      the pending-action queue and its replay               *)
(*   SpecOffline     the offline commands applied to a cached store        *)
(*   SpecTui         Model.Update, the commands in flight and the store    *)
(*   SpecPaging      the email list loaded page by page                    *)
(*   SpecBody        the cached body of an email and its preview           *)
(*   SpecMailboxes   the mailbox table under SaveMailboxes calls           *)
(*   SpecTx          the multi-row writes, statement by statement          *)
(*   SpecPromote     local drafts queued offline and their replay          *)
(*   SpecMembership  the emails and their mailbox memberships              *)
(*   SpecMigrate     the schema script run on a store in use               *)
(*   SpecConfig      the settings table and the offline-mode toggle        *)
(*   SpecUpdate      Model.Update with mail, calendar and contacts         *)
(*   SpecUpdateFair  SpecUpdate where every command runs to its end        *)
(*   SpecQueue       the pending-action queue under add and remove         *)
(*   SpecAdapter     the Remote Adapter's mutating calls on the server     *)
(***************************************************************************)
EXTENDS Integers, Sequences, FiniteSets, TLC

(***************************************************************************)
(* Bounds of the model.                                                    *)
(***************************************************************************)
\* longest batch handed to one SaveEmails call
MaxBatch == 2
\* largest date value of an email (dates are compared, never computed with)
MaxDate == 2
\* most pending actions ever added to the queue
MaxActions == 3
\* last clock second the model reaches
MaxClock == 2
\* most commands in flight (running or holding their message) at a time
MaxInFlight == 2
\* most key presses handled by Update in one behaviour
MaxKeys == 6

(***************************************************************************)
(* Universes of identifiers.                                               *)
(***************************************************************************)
EmailIds == {"e1", "e2"}
MailboxIds == {"m1", "m2"}

\* an absent value: no row, no result
Nil == "nil"

(***************************************************************************)
(* State.                                                                  *)
(***************************************************************************)
VARIABLES
    \* ---- Local Store: the tables of db.go's schema ----
    mailboxes,        \* id -> row of table mailboxes
    emails,           \* id -> row of table emails
    email_mailboxes,  \* set of <<email_id, mailbox_id>>, the junction table
    pending_actions,  \* set of rows of table pending_actions
    action_seq,       \* sqlite_sequence of pending_actions (AUTOINCREMENT)
    local_drafts,     \* id -> row of table local_drafts
    config,           \* key -> value of table config
    clock,            \* CURRENT_TIMESTAMP, in whole seconds
    \* ---- replay of the queue (the sync command) ----
    replay_pc,        \* "idle", "call", "remove" or "halted"
    replay_list,      \* the actions GetPendingActions returned to this run
    replay_idx,       \* position in replay_list of the action being replayed
    \* ---- history of the calls made ----
    lastSaved,        \* email id -> MailboxIDs of its most recent saved entry
    remoteOk,         \* action id -> number of its remote calls that succeeded
    reissued,         \* a remote call was made for an action already applied
    callOrder,        \* ids of the actions called by the current replay run
    runStart,         \* the rows queued when the current replay run began
    failed,           \* id of the action the latest halted run halted on, or 0
    \* ---- history of a caller of SaveMailboxes ----
    lastList,         \* the list of its most recent committed SaveMailboxes call
    saves,            \* the number of its committed SaveMailboxes calls
    \* ---- a store call running statement by statement in its transaction ----
    tx,               \* the open transaction, or the outcome of the latest one
    \* ---- the offline commands, called directly ----
    delivered,        \* the message the latest offline command returned
    \* ---- the JMAP server and the Remote Adapter's calls on it ----
    server,           \* the emails and the submissions the server holds
    returned,         \* the latest Remote Adapter call and the error it returned
    \* ---- Model (the TUI): the fields of m that Update reads for mail ----
    hasDB,            \* m.db != nil
    keys,             \* the number of key presses Update has handled
    m_offlineMode,
    m_state,
    m_menuCursor,
    m_settingsCursor,
    m_mailboxes,
    m_mbCursor,
    m_emails,
    m_emailCursor,
    m_loading,
    m_canLoadMore,
    m_bodyContent,
    m_draftID,
    m_err,
    m_calendars,
    m_events,
    m_addressBooks,
    m_contacts,
    \* ---- commands Update returned that have not been consumed yet ----
    cmds              \* sequence of commands: running, or holding their message

storeVars == <<mailboxes, emails, email_mailboxes, pending_actions, action_seq,
               local_drafts, config, clock>>
replayVars == <<replay_pc, replay_list, replay_idx>>
replayHist == <<remoteOk, reissued, callOrder, runStart, failed>>
callerVars == <<lastList, saves>>
remoteVars == <<server, returned>>
modelVars == <<m_offlineMode, m_state, m_menuCursor, m_settingsCursor, m_mailboxes,
               m_mbCursor, m_emails, m_emailCursor, m_loading, m_canLoadMore,
               m_bodyContent, m_draftID, m_err>>
calVars == <<m_calendars, m_events, m_addressBooks, m_contacts>>
uiVars == <<delivered, hasDB, calVars, keys, modelVars, cmds>>
vars == <<mailboxes, emails, email_mailboxes, pending_actions, action_seq,
          local_drafts, config, clock, replay_pc, replay_list, replay_idx,
          lastSaved, remoteOk, reissued, callOrder, runStart, failed, lastList, saves, tx,
          delivered, server, returned, hasDB, keys, m_offlineMode, m_state, m_menuCursor, m_settingsCursor,
          m_mailboxes, m_mbCursor, m_emails, m_emailCursor, m_loading,
          m_canLoadMore, m_bodyContent, m_draftID, m_err, m_calendars, m_events,
          m_addressBooks, m_contacts, cmds>>

(***************************************************************************)
(* Helpers on sequences and functions.                                     *)
(***************************************************************************)
Range(s) == {s[i] : i \in DOMAIN s}

\* f with key k bound to v, k added to the domain when new
Put(f, k, v) == [x \in DOMAIN f \cup {k} |-> IF x = k THEN v ELSE f[x]]

\* f without key k
Drop(f, k) == [x \in DOMAIN f \ {k} |-> f[x]]

EmptyFn == [x \in {} |-> Nil]

SeqsUpTo(S, n) == UNION {[1..k -> S] : k \in 0..n}

(***************************************************************************)
(* Local Store: emails and their mailbox memberships.                      *)
(***************************************************************************)
\* the row SaveEmails writes for one email: INSERT OR REPLACE INTO emails
\* with every listed column taken from the entry (body_text from e.Body,
\* mailbox_ids from json.Marshal(e.MailboxIDs))
EmailRow(e) ==
    [date |-> e.Date, is_unread |-> e.IsUnread, is_flagged |-> e.IsFlagged,
     preview |-> e.Preview, body_text |-> e.Body, mailbox_ids |-> e.MailboxIDs]

\* INSERT OR REPLACE INTO emails: the row with this id is replaced whole.
\* The connection is opened without foreign_keys, so the ON DELETE CASCADE
\* of email_mailboxes does not run when the old row is replaced.
UpsertEmail(tbl, e) == Put(tbl, e.ID, EmailRow(e))

\* a plain INSERT that gave way on conflict: a pair already present is taken
\* out instead of being kept
FlipMemberships(em, e) ==
    (em \ {<<e.ID, mb>> : mb \in e.MailboxIDs})
        \cup {<<e.ID, mb>> : mb \in e.MailboxIDs \ {x \in MailboxIds : <<e.ID, x>> \in em}}

\* the inner loop of SaveEmails: INSERT OR REPLACE INTO email_mailboxes for
\* each id of e.MailboxIDs; rows of e that are not listed are left alone
InsertMemberships(em, e) == em \cup {<<e.ID, mb>> : mb \in e.MailboxIDs}

RECURSIVE SaveEmailsRows(_, _)
SaveEmailsRows(tbl, batch) ==
    IF batch = <<>> THEN tbl
    ELSE SaveEmailsRows(UpsertEmail(tbl, Head(batch)), Tail(batch))

RECURSIVE SaveEmailsMemberships(_, _)
SaveEmailsMemberships(em, batch) ==
    IF batch = <<>> THEN em
    ELSE SaveEmailsMemberships(InsertMemberships(em, Head(batch)), Tail(batch))

\* the ids GetEmails' JOIN selects for a mailbox
MemberIds(mailboxID) ==
    {id \in DOMAIN emails : <<id, mailboxID>> \in email_mailboxes}

\* a sequence lists the ids of S once each, newest date first
IsDateDesc(s, S) ==
    /\ Len(s) = Cardinality(S)
    /\ Range(s) = S
    /\ \A i, j \in DOMAIN s : i < j => emails[s[i]].date >= emails[s[j]].date

\* ORDER BY e.date DESC: every order of the members that is descending in
\* date (rows of equal date come in an order SQL leaves open)
OrderedMembers(mailboxID) ==
    {s \in [1..Cardinality(MemberIds(mailboxID)) -> MemberIds(mailboxID)] :
        IsDateDesc(s, MemberIds(mailboxID))}

\* LIMIT ? OFFSET ?
Page(s, offset, limit) ==
    [i \in 1..(IF Len(s) - offset < 0 THEN 0
               ELSE IF Len(s) - offset > limit THEN limit
               ELSE Len(s) - offset) |-> s[i + offset]]

\* the email GetEmails scans from a row (the body column is not selected)
ScanEmail(id) ==
    [ID |-> id, Date |-> emails[id].date, IsUnread |-> emails[id].is_unread,
     IsFlagged |-> emails[id].is_flagged, Preview |-> emails[id].preview,
     Body |-> "", MailboxIDs |-> emails[id].mailbox_ids]

\* GetEmails(mailboxID, offset, limit): the results the query can give
GetEmails(mailboxID, offset, limit) ==
    {[i \in DOMAIN Page(s, offset, limit) |-> ScanEmail(Page(s, offset, limit)[i])] :
        s \in OrderedMembers(mailboxID)}

\* a limit above every table size of the model
LargeLimit == 100

(***************************************************************************)
(* SaveEmails as an operation: one transaction, committed or rolled back.  *)
(***************************************************************************)
RECURSIVE LastEntries(_, _)
LastEntries(hist, batch) ==
    IF batch = <<>> THEN hist
    ELSE LastEntries(Put(hist, Head(batch).ID, Head(batch).MailboxIDs), Tail(batch))

SaveEmails(batch, ok) ==
    /\ IF ok
       THEN /\ emails' = SaveEmailsRows(emails, batch)
            /\ email_mailboxes' = SaveEmailsMemberships(email_mailboxes, batch)
            /\ lastSaved' = LastEntries(lastSaved, batch)
       ELSE UNCHANGED <<emails, email_mailboxes, lastSaved>>
    /\ UNCHANGED <<mailboxes, pending_actions, action_seq, local_drafts, config, clock>>
    /\ UNCHANGED <<replayVars, callerVars, tx, remoteVars, replayHist, uiVars>>

(***************************************************************************)
(* SpecSaveEmails: any sequence of SaveEmails calls on an empty store.     *)
(***************************************************************************)
\* the entries a caller hands to SaveEmails (list entries carry no body)
SavedEmailInputs ==
    [ID : EmailIds, Date : 1..MaxDate, IsUnread : {TRUE}, IsFlagged : {FALSE},
     Preview : {"p"}, Body : {""}, MailboxIDs : SUBSET MailboxIds]

InitStore ==
    /\ mailboxes = EmptyFn
    /\ emails = EmptyFn
    /\ email_mailboxes = {}
    /\ pending_actions = {}
    /\ action_seq = 0
    /\ local_drafts = EmptyFn
    /\ config = EmptyFn
    /\ clock = 0

InitReplay ==
    /\ replay_pc = "idle"
    /\ replay_list = <<>>
    /\ replay_idx = 0

\* an email object of the server: the properties the adapter's patches name
ServerEmail(mbs, seen, flagged, draft) ==
    [mailboxIds |-> mbs, seen |-> seen, flagged |-> flagged, draft |-> draft]

\* the account at the start: one received email and one saved draft, no
\* email created and nothing submitted by this client yet
InitServer ==
    [emails |-> [id \in {"e1", "d1"} |->
                    IF id = "e1" THEN ServerEmail({"m1"}, FALSE, FALSE, FALSE)
                    ELSE ServerEmail({"drafts"}, TRUE, FALSE, TRUE)],
     created |-> 0,
     sent |-> 0]

\* no Remote Adapter call has returned yet
NoCall == [call |-> "none", id |-> "", outcome |-> [transport |-> FALSE], err |-> FALSE,
           sendsOk |-> 0]

InitHist ==
    /\ server = InitServer
    /\ returned = NoCall
    /\ lastSaved = EmptyFn
    /\ remoteOk = [id \in {} |-> 0]
    /\ reissued = FALSE
    /\ callOrder = <<>>
    /\ runStart = {}
    /\ failed = 0
    /\ lastList = <<>>
    /\ saves = 0
    /\ tx = [op |-> "none", outcome |-> "none"]

\* no offline command has been called yet
NoResult == [cmd |-> "none", failing |-> FALSE, miss |-> FALSE,
             msg |-> [type |-> "none", payload |-> ""]]

\* NewModelWithStorage: the main menu, nothing loaded, no command running
InitModel ==
    /\ m_state = "viewMainMenu"
    /\ m_menuCursor = 0
    /\ m_settingsCursor = 0
    /\ m_mailboxes = <<>>
    /\ m_mbCursor = 0
    /\ m_emails = <<>>
    /\ m_emailCursor = 0
    /\ m_loading = FALSE
    /\ m_canLoadMore = FALSE
    /\ m_bodyContent = ""
    /\ m_draftID = ""
    /\ m_err = Nil
    /\ m_calendars = <<>>
    /\ m_events = <<>>
    /\ m_addressBooks = <<>>
    /\ m_contacts = <<>>
    /\ cmds = <<>>
    /\ delivered = NoResult
    /\ keys = 0

\* the parts of the state a specification without the TUI leaves alone
InitNoUi ==
    /\ InitModel
    /\ hasDB = TRUE
    /\ m_offlineMode = FALSE

InitSaveEmails ==
    /\ InitStore
    /\ InitReplay
    /\ InitHist
    /\ InitNoUi

NextSaveEmails ==
    \E batch \in SeqsUpTo(SavedEmailInputs, MaxBatch), ok \in BOOLEAN :
        SaveEmails(batch, ok)

SpecSaveEmails == InitSaveEmails /\ [][NextSaveEmails]_vars

(***************************************************************************)
(* Local Store: the pending-action queue.                                  *)
(***************************************************************************)
ActionTypes == {"save_draft", "delete"}

\* INSERT INTO pending_actions (type, email_id, data): the id is the next
\* AUTOINCREMENT value, created_at the CURRENT_TIMESTAMP default (seconds)
InsertAction(tbl, seq, now, actionType, emailID, data) ==
    tbl \cup {[id |-> seq + 1, type |-> actionType, email_id |-> emailID,
               data |-> data, created_at |-> now]}

\* a removal that deletes no row
RemovePendingActionNoRow(tbl, id) == tbl

\* a removal that takes the older actions along: WHERE id <= ?
RemovePendingActionUpTo(tbl, id) == {a \in tbl : a.id > id}

\* DELETE FROM pending_actions WHERE id = ?
RemovePendingActionRows(tbl, id) == {a \in tbl : a.id # id}

\* ORDER BY created_at ASC: every order of the rows that is ascending in
\* created_at (rows of the same second come in an order SQL leaves open)
GetPendingActions ==
    {s \in [1..Cardinality(pending_actions) -> pending_actions] :
        /\ Range(s) = pending_actions
        /\ \A i, j \in DOMAIN s : i < j => s[i].created_at <= s[j].created_at}

AddPendingAction(actionType, emailID, data, ok) ==
    /\ action_seq < MaxActions
    /\ IF ok
       THEN /\ pending_actions' = InsertAction(pending_actions, action_seq, clock,
                                               actionType, emailID, data)
            /\ action_seq' = action_seq + 1
            /\ remoteOk' = Put(remoteOk, action_seq + 1, 0)
       ELSE UNCHANGED <<pending_actions, action_seq, remoteOk>>
    /\ UNCHANGED <<mailboxes, emails, email_mailboxes, local_drafts, config, clock>>
    /\ UNCHANGED <<replayVars, lastSaved, callerVars, tx, remoteVars, reissued, callOrder, runStart, failed, uiVars>>

\* a second of wall-clock time passes
Tick ==
    /\ clock < MaxClock
    /\ clock' = clock + 1
    /\ UNCHANGED <<mailboxes, emails, email_mailboxes, pending_actions, action_seq,
                   local_drafts, config>>
    /\ UNCHANGED <<replayVars, lastSaved, callerVars, tx, remoteVars, replayHist, uiVars>>

(***************************************************************************)
(* Replay (the sync command): load the queue in creation order, call the   *)
(* Remote Adapter for each action, remove it on success, halt on failure.  *)
(***************************************************************************)
\* a run begins: the queue is loaded once, with GetPendingActions
ReplayStart ==
    /\ replay_pc \in {"idle", "halted"}
    /\ \E list \in GetPendingActions :
        /\ replay_list' = list
        /\ replay_idx' = 1
        /\ replay_pc' = IF list = <<>> THEN "idle" ELSE "call"
    /\ callOrder' = <<>>
    /\ runStart' = pending_actions
    /\ UNCHANGED <<storeVars, lastSaved, callerVars, tx, remoteVars, remoteOk, reissued, failed, uiVars>>

\* the remote call of the current action succeeds
ReplayCallOk ==
    /\ replay_pc = "call"
    /\ replay_pc' = "remove"
    /\ remoteOk' = [remoteOk EXCEPT ![replay_list[replay_idx].id] = @ + 1]
    /\ reissued' = (reissued \/ remoteOk[replay_list[replay_idx].id] > 0)
    /\ callOrder' = Append(callOrder, replay_list[replay_idx].id)
    /\ UNCHANGED <<storeVars, replay_list, replay_idx, lastSaved, callerVars, tx, remoteVars, runStart, failed, uiVars>>

\* the remote call of the current action fails: the run halts there
ReplayCallFail ==
    /\ replay_pc = "call"
    /\ replay_pc' = "halted"
    /\ failed' = replay_list[replay_idx].id
    /\ reissued' = (reissued \/ remoteOk[replay_list[replay_idx].id] > 0)
    /\ callOrder' = Append(callOrder, replay_list[replay_idx].id)
    /\ UNCHANGED <<storeVars, replay_list, replay_idx, lastSaved, callerVars, tx, remoteVars, remoteOk, runStart, uiVars>>

\* the applied action is removed and the run moves to the next one
ReplayRemove ==
    /\ replay_pc = "remove"
    /\ pending_actions' =
          RemovePendingActionRows(pending_actions, replay_list[replay_idx].id)
    /\ replay_idx' = replay_idx + 1
    /\ replay_pc' = IF replay_idx + 1 > Len(replay_list) THEN "idle" ELSE "call"
    /\ UNCHANGED <<mailboxes, emails, email_mailboxes, action_seq, local_drafts,
                   config, clock>>
    /\ UNCHANGED <<replay_list, lastSaved, callerVars, tx, remoteVars, replayHist, uiVars>>

(***************************************************************************)
(* SpecReplay: actions are queued, seconds pass and replay runs.           *)
(***************************************************************************)
InitSpecReplay ==
    /\ InitStore
    /\ InitReplay
    /\ InitHist
    /\ InitNoUi

NextReplay ==
    \/ \E t \in ActionTypes, e \in EmailIds, ok \in BOOLEAN :
          AddPendingAction(t, e, "data", ok)
    \/ Tick
    \/ ReplayStart
    \/ ReplayCallOk
    \/ ReplayCallFail
    \/ ReplayRemove

SpecReplay == InitSpecReplay /\ [][NextReplay]_vars

(***************************************************************************)
(* SpecQueue: the queue under AddPendingAction and RemovePendingAction     *)
(* called with any id, queued or not.                                      *)
(***************************************************************************)
\* RemovePendingAction: a DELETE that matches no row is not an error
RemovePendingAction(id, ok) ==
    /\ pending_actions' = IF ok THEN RemovePendingActionRows(pending_actions, id)
                          ELSE pending_actions
    /\ delivered' = [cmd |-> "RemovePendingAction", failing |-> ~ok,
                     miss |-> (\A a \in pending_actions : a.id # id),
                     msg |-> [type |-> IF ok THEN "nil" ELSE "error", payload |-> id]]
    /\ UNCHANGED <<mailboxes, emails, email_mailboxes, action_seq, local_drafts,
                   config, clock>>
    /\ UNCHANGED <<replayVars, lastSaved, callerVars, tx, remoteVars, replayHist, hasDB, calVars,
                   keys, modelVars, cmds>>

NextQueue ==
    \/ \E t \in ActionTypes, e \in EmailIds, ok \in BOOLEAN :
          AddPendingAction(t, e, "data", ok)
    \/ Tick
    \/ \E id \in 1..MaxActions, ok \in BOOLEAN : RemovePendingAction(id, ok)

SpecQueue == InitSpecReplay /\ [][NextQueue]_vars

(***************************************************************************)
(* Local Store: mailboxes and email bodies.                                *)
(***************************************************************************)
\* mailbox names, in the collation order ORDER BY name uses
MailboxNames == <<"Archive", "Inbox">>
NameRank(name) == CHOOSE i \in DOMAIN MailboxNames : MailboxNames[i] = name

\* the row SaveMailboxes writes: INSERT OR REPLACE INTO mailboxes
MailboxRow(mb) ==
    [name |-> mb.Name, role |-> mb.Role, parent_id |-> mb.ParentID,
     sort_order |-> mb.SortOrder, unread_count |-> mb.UnreadCount]

\* INSERT OR IGNORE: a row already stored under the id is kept
InsertMailboxOrIgnore(tbl, mb) ==
    IF mb.ID \in DOMAIN tbl THEN tbl ELSE Put(tbl, mb.ID, MailboxRow(mb))

\* INSERT OR REPLACE INTO mailboxes: the row with this id is replaced whole
UpsertMailbox(tbl, mb) == Put(tbl, mb.ID, MailboxRow(mb))

RECURSIVE SaveMailboxesRows(_, _)
SaveMailboxesRows(tbl, list) ==
    IF list = <<>> THEN tbl
    ELSE SaveMailboxesRows(UpsertMailbox(tbl, Head(list)), Tail(list))

\* the mailbox GetMailboxes scans from a row
ScanMailbox(id) ==
    [ID |-> id, Name |-> mailboxes[id].name, Role |-> mailboxes[id].role,
     ParentID |-> mailboxes[id].parent_id, SortOrder |-> mailboxes[id].sort_order,
     UnreadCount |-> mailboxes[id].unread_count]

\* ORDER BY name alone
MailboxBeforeByName(a, b) == NameRank(a.Name) <= NameRank(b.Name)

\* ORDER BY sort_order, name
MailboxBefore(a, b) ==
    \/ a.SortOrder < b.SortOrder
    \/ a.SortOrder = b.SortOrder /\ NameRank(a.Name) <= NameRank(b.Name)

\* GetMailboxes(): the results the query can give, every row once
GetMailboxes ==
    {s \in [1..Cardinality(DOMAIN mailboxes) -> {ScanMailbox(id) : id \in DOMAIN mailboxes}] :
        /\ {s[i].ID : i \in DOMAIN s} = DOMAIN mailboxes
        /\ \A i, j \in DOMAIN s : i < j => MailboxBefore(s[i], s[j])}

\* SaveMailboxes(list): one transaction, committed or rolled back
SaveMailboxes(list, ok) ==
    /\ mailboxes' = IF ok THEN SaveMailboxesRows(mailboxes, list) ELSE mailboxes
    /\ UNCHANGED <<emails, email_mailboxes, pending_actions, action_seq, local_drafts,
                   config, clock>>
    /\ UNCHANGED <<replayVars, lastSaved, tx, remoteVars, replayHist, uiVars>>

DegradedPrefix == "[Full email body not cached - showing preview]\n\n"
NoBodySentinel == "[Email body not available offline]"

\* a reader without the preview fallback
GetEmailBodyNoFallback(emailID) ==
    IF emailID \notin DOMAIN emails THEN [err |-> "sql: no rows in result set", body |-> ""]
    ELSE IF emails[emailID].body_text # ""
        THEN [err |-> Nil, body |-> emails[emailID].body_text]
    ELSE [err |-> Nil, body |-> NoBodySentinel]

\* GetEmailBody(id): QueryRow.Scan fails with sql.ErrNoRows when no row has
\* the id; else the body, the marked preview or the sentinel
GetEmailBody(emailID) ==
    IF emailID \notin DOMAIN emails THEN [err |-> "sql: no rows in result set", body |-> ""]
    ELSE IF emails[emailID].body_text # ""
        THEN [err |-> Nil, body |-> emails[emailID].body_text]
    ELSE IF emails[emailID].preview # ""
        THEN [err |-> Nil, body |-> DegradedPrefix \o emails[emailID].preview]
    ELSE [err |-> Nil, body |-> NoBodySentinel]

\* UPDATE emails SET body_text = ? WHERE id = ?: no row, no change
SaveEmailBodyRows(tbl, emailID, body) ==
    IF emailID \in DOMAIN tbl THEN [tbl EXCEPT ![emailID].body_text = body] ELSE tbl

SaveEmailBody(emailID, body, ok) ==
    /\ emails' = IF ok THEN SaveEmailBodyRows(emails, emailID, body) ELSE emails
    /\ UNCHANGED <<mailboxes, email_mailboxes, pending_actions, action_seq, local_drafts,
                   config, clock>>
    /\ UNCHANGED <<replayVars, lastSaved, callerVars, tx, remoteVars, replayHist, uiVars>>

(***************************************************************************)
(* Messages a command returns to Update.                                   *)
(***************************************************************************)
Msg(type, payload) == [type |-> type, payload |-> payload]
errorMsg(err) == Msg("errorMsg", err)

\* FetchEmails and fetchEmailsOfflineCmd ask for pages of this size
PageSize == 20

(***************************************************************************)
(* The offline commands: what each may return on the store as it is.       *)
(* A failing query (ok = FALSE) gives the storage error.                   *)
(***************************************************************************)
fetchMailboxesOfflineCmd(ok) ==
    IF ~hasDB THEN {errorMsg("no local storage available")}
    ELSE IF ~ok THEN {errorMsg("storage error")}
    ELSE {Msg("mailboxesLoadedMsg", mbs) : mbs \in GetMailboxes}

fetchEmailsOfflineCmd(mailboxID, offset, ok) ==
    IF ~hasDB THEN {errorMsg("no local storage available")}
    ELSE IF ~ok THEN {errorMsg("storage error")}
    ELSE {Msg("emailsLoadedMsg", es) : es \in GetEmails(mailboxID, offset, PageSize)}

fetchEmailBodyOfflineCmd(emailID, ok) ==
    IF ~hasDB THEN {errorMsg("no local storage available")}
    ELSE IF ~ok THEN {errorMsg("storage error")}
    ELSE IF GetEmailBody(emailID).err # Nil THEN {errorMsg(GetEmailBody(emailID).err)}
    ELSE {Msg("emailBodyLoadedMsg", GetEmailBody(emailID).body)}

(***************************************************************************)
(* SpecOffline: a store filled by write-through, read by the offline       *)
(* commands.                                                               *)
(***************************************************************************)
MailboxRecord(id) ==
    IF id = "m1"
    THEN [ID |-> "m1", Name |-> "Inbox", Role |-> "inbox", ParentID |-> "",
          SortOrder |-> 1, UnreadCount |-> 0]
    ELSE [ID |-> id, Name |-> "Archive", Role |-> "archive", ParentID |-> "",
          SortOrder |-> 2, UnreadCount |-> 0]

\* the lists FetchMailboxes returns: sorted by SortOrder
RemoteMailboxLists ==
    {<<>>, <<MailboxRecord("m1")>>, <<MailboxRecord("m1"), MailboxRecord("m2")>>}

Bodies == {"b"}

\* the date the server gives each email: e1 is the newer one
RemoteDate(id) == IF id = "e1" THEN 2 ELSE 1

\* the entries write-through hands to SaveEmails: as FetchEmails builds them,
\* with no body
RemoteEmail(id, unread, mbs) ==
    [ID |-> id, Date |-> RemoteDate(id), IsUnread |-> unread, IsFlagged |-> FALSE,
     Preview |-> "p", Body |-> "", MailboxIDs |-> mbs]

CachedEmailInputs ==
    {RemoteEmail(id, TRUE, {mb}) : id \in EmailIds, mb \in MailboxIds}

CallFetchMailboxesOffline ==
    /\ \E ok \in BOOLEAN : \E msg \in fetchMailboxesOfflineCmd(ok) :
          delivered' = [cmd |-> "fetchMailboxesOfflineCmd", failing |-> ~ok,
                        miss |-> (DOMAIN mailboxes = {}), msg |-> msg]
    /\ UNCHANGED <<storeVars, replayVars, lastSaved, callerVars, tx, remoteVars, replayHist, hasDB, calVars, keys, modelVars, cmds>>

CallFetchEmailsOffline ==
    /\ \E mb \in MailboxIds, offset \in {0}, ok \in BOOLEAN :
       \E msg \in fetchEmailsOfflineCmd(mb, offset, ok) :
          delivered' = [cmd |-> "fetchEmailsOfflineCmd", failing |-> ~ok,
                        miss |-> (MemberIds(mb) = {}), msg |-> msg]
    /\ UNCHANGED <<storeVars, replayVars, lastSaved, callerVars, tx, remoteVars, replayHist, hasDB, calVars, keys, modelVars, cmds>>

CallFetchEmailBodyOffline ==
    /\ \E id \in EmailIds, ok \in BOOLEAN : \E msg \in fetchEmailBodyOfflineCmd(id, ok) :
          delivered' = [cmd |-> "fetchEmailBodyOfflineCmd", failing |-> ~ok,
                        miss |-> (id \notin DOMAIN emails), msg |-> msg]
    /\ UNCHANGED <<storeVars, replayVars, lastSaved, callerVars, tx, remoteVars, replayHist, hasDB, calVars, keys, modelVars, cmds>>

InitOffline ==
    /\ InitStore
    /\ InitReplay
    /\ InitHist
    /\ InitModel
    /\ hasDB = TRUE
    /\ m_offlineMode = TRUE

NextOffline ==
    \/ \E list \in RemoteMailboxLists, ok \in BOOLEAN :
        SaveMailboxes(list, ok) /\ UNCHANGED callerVars
    \/ \E e \in CachedEmailInputs, ok \in BOOLEAN : SaveEmails(<<e>>, ok)
    \/ \E id \in EmailIds, body \in Bodies, ok \in BOOLEAN : SaveEmailBody(id, body, ok)
    \/ CallFetchMailboxesOffline
    \/ CallFetchEmailsOffline
    \/ CallFetchEmailBodyOffline

SpecOffline == InitOffline /\ [][NextOffline]_vars

(***************************************************************************)
(* Commands: what Update returns to the runtime.  A command runs in its    *)
(* own goroutine: it starts in stage "run" (its remote call or local read  *)
(* is pending), an online read that succeeded passes through stage         *)
(* "store" (its write-through is pending) and every command ends in stage  *)
(* "msg", holding the message it returned until Update consumes it.        *)
(***************************************************************************)
OnlineReadKinds ==
    {"fetchMailboxesCmd", "fetchEmailsCmd", "refreshEmailsCmd", "fetchEmailBodyCmd"}
MutateKinds ==
    {"saveDraftCmd", "sendEmailCmd", "moveEmailCmd", "deleteEmailCmd",
     "toggleUnreadCmd", "toggleFlaggedCmd"}
\* the kinds whose function calls the Remote Adapter
RemoteKinds == OnlineReadKinds \cup MutateKinds

NoMsg == Msg("none", "")
\* a command function that returns nil: the runtime passes no message on
nilMsg == Msg("nil", "")

\* a command as Update returns it; offline records m.offlineMode at that time
NewCmd(kind, mb, to, id, flag, off) ==
    [kind |-> kind, mb |-> mb, to |-> to, id |-> id, flag |-> flag, off |-> off,
     stage |-> "run", msg |-> NoMsg, offline |-> m_offlineMode,
     rfail |-> FALSE, touched |-> FALSE]

fetchMailboxesCmd == NewCmd("fetchMailboxesCmd", "", "", "", FALSE, 0)
fetchMailboxesOffline == NewCmd("fetchMailboxesOfflineCmd", "", "", "", FALSE, 0)
fetchEmailsCmd(mailboxID, offset) ==
    NewCmd("fetchEmailsCmd", mailboxID, "", "", FALSE, offset)
refreshEmailsCmd(mailboxID) == NewCmd("refreshEmailsCmd", mailboxID, "", "", FALSE, 0)
fetchEmailBodyCmd(emailID) == NewCmd("fetchEmailBodyCmd", "", "", emailID, FALSE, 0)
saveDraftCmd(draftID) == NewCmd("saveDraftCmd", "", "", draftID, FALSE, 0)
sendEmailCmd(draftID) == NewCmd("sendEmailCmd", "", "", draftID, FALSE, 0)
moveEmailCmd(emailID, fromMBID, toMBID) ==
    NewCmd("moveEmailCmd", fromMBID, toMBID, emailID, FALSE, 0)
deleteEmailCmd(emailID) == NewCmd("deleteEmailCmd", "", "", emailID, FALSE, 0)
toggleUnreadCmd(emailID, isUnread) ==
    NewCmd("toggleUnreadCmd", "", "", emailID, isUnread, 0)
toggleFlaggedCmd(emailID, isFlagged) ==
    NewCmd("toggleFlaggedCmd", "", "", emailID, isFlagged, 0)

\* the mailbox lists FetchMailboxes returns to the TUI
TuiMailboxLists ==
    {<<MailboxRecord("m1")>>, <<MailboxRecord("m1"), MailboxRecord("m2")>>}

\* the email the server holds in each mailbox
EmailOf(mailboxID) == IF mailboxID = "m1" THEN "e1" ELSE "e2"

\* the pages FetchEmails(mailboxID, ...) returns: the emails of that mailbox
RemotePages(mailboxID) ==
    {<<>>, <<RemoteEmail(EmailOf(mailboxID), TRUE, {mailboxID})>>}

\* the message an online read returns once its remote call has succeeded
ReadResults(c) ==
    IF c.kind = "fetchMailboxesCmd"
        THEN {Msg("mailboxesLoadedMsg", mbs) : mbs \in TuiMailboxLists}
    ELSE IF c.kind = "fetchEmailsCmd"
        THEN {Msg("emailsLoadedMsg", es) : es \in RemotePages(c.mb)}
    ELSE IF c.kind = "refreshEmailsCmd"
        THEN {Msg("emailsRefreshedMsg", es) : es \in RemotePages(c.mb)}
    ELSE {Msg("emailBodyLoadedMsg", body) : body \in Bodies}

\* a read that falls back to the cached mailbox list when the remote call fails
AfterReadFailureCached(c) ==
    [c EXCEPT !.stage = "msg",
              !.msg = IF c.kind = "fetchMailboxesCmd"
                      THEN CHOOSE msg \in fetchMailboxesOfflineCmd(TRUE) : TRUE
                      ELSE errorMsg("remote error"),
              !.rfail = TRUE,
              !.touched = (c.kind = "fetchMailboxesCmd" /\ hasDB)]

\* an online read whose remote call failed returns errorMsg(err) at once
AfterReadFailure(c) ==
    [c EXCEPT !.stage = "msg", !.msg = errorMsg("remote error"), !.rfail = TRUE]

\* the message a mutating command returns when its remote call succeeded
MutateOkMsg(c) ==
    IF c.kind = "saveDraftCmd" THEN Msg("draftSavedMsg", "")
    ELSE IF c.kind = "sendEmailCmd" THEN Msg("emailSentMsg", "")
    ELSE IF c.kind \in {"moveEmailCmd", "deleteEmailCmd"} THEN Msg("emailDeletedMsg", "")
    ELSE nilMsg

\* a mutating command that reports success although its remote call failed
AfterMutateFailureSilent(c) ==
    [c EXCEPT !.stage = "msg", !.msg = MutateOkMsg(c), !.rfail = TRUE]

\* a mutating command whose remote call failed returns errorMsg(err)
AfterMutateFailure(c) ==
    [c EXCEPT !.stage = "msg", !.msg = errorMsg("remote error"), !.rfail = TRUE]

\* Update panicked on an index out of range: the program is gone
Alive == m_state # "crashed"

\* the remote call of an online read succeeds
RemoteReadOk(i) ==
    /\ Alive
    /\ cmds[i].stage = "run"
    /\ cmds[i].kind \in OnlineReadKinds
    /\ \E msg \in ReadResults(cmds[i]) :
          cmds' = [cmds EXCEPT ![i].stage = "store", ![i].msg = msg]
    /\ UNCHANGED <<storeVars, replayVars, lastSaved, callerVars, tx, remoteVars, replayHist, delivered, hasDB, calVars, keys, modelVars>>

\* the remote call of an online read fails
RemoteReadFail(i) ==
    /\ Alive
    /\ cmds[i].stage = "run"
    /\ cmds[i].kind \in OnlineReadKinds
    /\ cmds' = [cmds EXCEPT ![i] = AfterReadFailure(@)]
    /\ UNCHANGED <<storeVars, replayVars, lastSaved, callerVars, tx, remoteVars, replayHist, delivered, hasDB, calVars, keys, modelVars>>

\* the tables after the write-through of command c ("if db != nil { db.Save... }",
\* the returned error dropped): <<mailboxes, emails, email_mailboxes>>
WriteThroughTables(c) ==
    IF ~hasDB THEN <<mailboxes, emails, email_mailboxes>>
    ELSE IF c.kind = "fetchMailboxesCmd"
        THEN <<SaveMailboxesRows(mailboxes, c.msg.payload), emails, email_mailboxes>>
    ELSE IF c.kind \in {"fetchEmailsCmd", "refreshEmailsCmd"}
        THEN <<mailboxes, SaveEmailsRows(emails, c.msg.payload),
               SaveEmailsMemberships(email_mailboxes, c.msg.payload)>>
    ELSE <<mailboxes, SaveEmailBodyRows(emails, c.id, c.msg.payload), email_mailboxes>>

\* the write-through of an online read, then its return; the store is healthy
\* here, its statements succeed
WriteThrough(i) ==
    /\ Alive
    /\ cmds[i].stage = "store"
    /\ mailboxes' = WriteThroughTables(cmds[i])[1]
    /\ emails' = WriteThroughTables(cmds[i])[2]
    /\ email_mailboxes' = WriteThroughTables(cmds[i])[3]
    /\ cmds' = [cmds EXCEPT ![i].stage = "msg", ![i].touched = hasDB]
    /\ UNCHANGED <<pending_actions, action_seq, local_drafts, config, clock>>
    /\ UNCHANGED <<replayVars, lastSaved, callerVars, tx, remoteVars, replayHist, delivered, hasDB, calVars, keys, modelVars>>

\* the remote call of a mutating command succeeds: the command returns
RemoteMutateOk(i) ==
    /\ Alive
    /\ cmds[i].stage = "run"
    /\ cmds[i].kind \in MutateKinds
    /\ cmds' = [cmds EXCEPT ![i].stage = "msg", ![i].msg = MutateOkMsg(cmds[i])]
    /\ UNCHANGED <<storeVars, replayVars, lastSaved, callerVars, tx, remoteVars, replayHist, delivered, hasDB, calVars, keys, modelVars>>

\* the remote call of a mutating command fails: the command returns errorMsg
RemoteMutateFail(i) ==
    /\ Alive
    /\ cmds[i].stage = "run"
    /\ cmds[i].kind \in MutateKinds
    /\ cmds' = [cmds EXCEPT ![i] = AfterMutateFailure(@)]
    /\ UNCHANGED <<storeVars, replayVars, lastSaved, callerVars, tx, remoteVars, replayHist, delivered, hasDB, calVars, keys, modelVars>>

\* fetchMailboxesOfflineCmd runs: it reads the store and returns
LocalRead(i) ==
    /\ Alive
    /\ cmds[i].stage = "run"
    /\ cmds[i].kind = "fetchMailboxesOfflineCmd"
    /\ \E ok \in BOOLEAN : \E msg \in fetchMailboxesOfflineCmd(ok) :
          cmds' = [cmds EXCEPT ![i].stage = "msg", ![i].msg = msg, ![i].touched = hasDB]
    /\ UNCHANGED <<storeVars, replayVars, lastSaved, callerVars, tx, remoteVars, replayHist, delivered, hasDB, calVars, keys, modelVars>>

(***************************************************************************)
(* Model.Update.  One action per message type and per key.  Indexing a     *)
(* slice past its end panics; the state "crashed" stands for the program   *)
(* after the panic.  SpecTui is the mail part; calendar and contacts are    *)
(* added in SpecUpdate.                                                    *)
(***************************************************************************)
ComposeStates == {"viewComposeTo", "viewComposeSubject", "viewComposeConfirm"}

\* the key reaches the navigation switch: no compose state, no error shown
Nav == Alive /\ m_state \notin ComposeStates /\ m_err = Nil

\* room for n more commands in flight
CanIssue(n) == Len(cmds) + n <= MaxInFlight

Without(s, i) == SubSeq(s, 1, i - 1) \o SubSeq(s, i + 1, Len(s))

\* the assignments Update makes to the mail fields of m
SetView(st, mbs, mbc, es, ec, ld, clm, body, err) ==
    /\ m_state' = st
    /\ m_mailboxes' = mbs
    /\ m_mbCursor' = mbc
    /\ m_emails' = es
    /\ m_emailCursor' = ec
    /\ m_loading' = ld
    /\ m_canLoadMore' = clm
    /\ m_bodyContent' = body
    /\ m_err' = err

\* Update leaves everything but the state, the loading flag and the error
Goto(st, ld, err) ==
    SetView(st, m_mailboxes, m_mbCursor, m_emails, m_emailCursor, ld,
            m_canLoadMore, m_bodyContent, err)

Crash == Goto("crashed", m_loading, m_err)

OutsideModel ==
    UNCHANGED <<storeVars, replayVars, lastSaved, callerVars, tx, remoteVars, replayHist, delivered, hasDB, calVars>>

\* Update handles a key press
Pressed == keys < MaxKeys /\ keys' = keys + 1
SameSettings == UNCHANGED <<m_offlineMode, m_menuCursor, m_settingsCursor, m_draftID>>

\* m.emails[m.emailCursor] and m.mailboxes[m.mbCursor] are in range
EmailInRange == m_emailCursor < Len(m_emails)
MailboxInRange == m_mbCursor < Len(m_mailboxes)
selectedEmail == m_emails[m_emailCursor + 1]
selectedMB == m_mailboxes[m_mbCursor + 1]

\* the message of command i is ready and of the given type
Ready(i, type) == Alive /\ cmds[i].stage = "msg" /\ cmds[i].msg.type = type

\* a command that returned nil: the runtime drops it, Update is not called
DropNil(i) ==
    /\ Ready(i, "nil")
    /\ cmds' = Without(cmds, i)
    /\ UNCHANGED <<modelVars>>
    /\ OutsideModel /\ UNCHANGED keys

\* a heuristic that asks for more after every page that held anything
CanLoadMoreNonEmpty(page) == Len(page) > 0

\* "if len(newEmails) < 20 { m.canLoadMore = false } else { ... = true }"
CanLoadMoreAfter(page) == Len(page) >= PageSize

OnMailboxesLoaded(i) ==
    /\ Ready(i, "mailboxesLoadedMsg")
    /\ SetView(m_state, cmds[i].msg.payload, m_mbCursor, m_emails, m_emailCursor,
               FALSE, m_canLoadMore, m_bodyContent, m_err)
    /\ cmds' = Without(cmds, i)
    /\ SameSettings /\ OutsideModel /\ UNCHANGED keys

OnEmailsLoaded(i) ==
    /\ Ready(i, "emailsLoadedMsg")
    /\ SetView(m_state, m_mailboxes, m_mbCursor, m_emails \o cmds[i].msg.payload,
               m_emailCursor, FALSE, CanLoadMoreAfter(cmds[i].msg.payload),
               m_bodyContent, m_err)
    /\ cmds' = Without(cmds, i)
    /\ SameSettings /\ OutsideModel /\ UNCHANGED keys

OnEmailsRefreshed(i) ==
    /\ Ready(i, "emailsRefreshedMsg")
    /\ SetView(m_state, m_mailboxes, m_mbCursor, cmds[i].msg.payload, 0, FALSE,
               CanLoadMoreAfter(cmds[i].msg.payload), m_bodyContent, m_err)
    /\ cmds' = Without(cmds, i)
    /\ SameSettings /\ OutsideModel /\ UNCHANGED keys

OnEmailBodyLoaded(i) ==
    /\ Ready(i, "emailBodyLoadedMsg")
    /\ SetView(m_state, m_mailboxes, m_mbCursor, m_emails, m_emailCursor, FALSE,
               m_canLoadMore, cmds[i].msg.payload, m_err)
    /\ cmds' = Without(cmds, i)
    /\ SameSettings /\ OutsideModel /\ UNCHANGED keys

\* draftSavedMsg and emailSentMsg: back to the mailbox list, which is fetched
OnDraftSavedOrSent(i) ==
    /\ Alive /\ cmds[i].stage = "msg"
    /\ cmds[i].msg.type \in {"draftSavedMsg", "emailSentMsg"}
    /\ Goto("viewMailboxes", FALSE, m_err)
    /\ cmds' = Append(Without(cmds, i), fetchMailboxesCmd)
    /\ SameSettings /\ OutsideModel /\ UNCHANGED keys

OnEmailDeleted(i) ==
    /\ Ready(i, "emailDeletedMsg")
    /\ Goto(m_state, FALSE, m_err)
    /\ cmds' = Append(Without(cmds, i), fetchMailboxesCmd)
    /\ SameSettings /\ OutsideModel /\ UNCHANGED keys

\* an error handler that starts the failed command again
OnErrorRetry(i) ==
    /\ Ready(i, "errorMsg")
    /\ Goto(m_state, FALSE, cmds[i].msg.payload)
    /\ cmds' = [cmds EXCEPT ![i].stage = "run", ![i].msg = NoMsg, ![i].rfail = FALSE]
    /\ SameSettings /\ OutsideModel /\ UNCHANGED keys

OnError(i) ==
    /\ Ready(i, "errorMsg")
    /\ Goto(m_state, FALSE, cmds[i].msg.payload)
    /\ cmds' = Without(cmds, i)
    /\ SameSettings /\ OutsideModel /\ UNCHANGED keys

\* ---- keys in the compose states ----
ComposeToEnter ==
    /\ Alive /\ m_state = "viewComposeTo"
    /\ Goto("viewComposeSubject", m_loading, m_err)
    /\ UNCHANGED cmds /\ SameSettings /\ OutsideModel /\ Pressed

ComposeToEsc ==
    /\ Alive /\ m_state = "viewComposeTo"
    /\ Goto("viewMailboxes", m_loading, m_err)
    /\ UNCHANGED cmds /\ SameSettings /\ OutsideModel /\ Pressed

\* Enter on the subject runs the editor; editorFinishedMsg then either sets
\* m.err or moves to the confirmation
ComposeSubjectEnter ==
    /\ Alive /\ m_state = "viewComposeSubject"
    /\ \E editorOk \in BOOLEAN :
          IF editorOk THEN Goto("viewComposeConfirm", m_loading, m_err)
          ELSE Goto(m_state, m_loading, "editor error")
    /\ UNCHANGED cmds /\ SameSettings /\ OutsideModel /\ Pressed

ComposeSubjectEsc ==
    /\ Alive /\ m_state = "viewComposeSubject"
    /\ Goto("viewComposeTo", m_loading, m_err)
    /\ UNCHANGED cmds /\ SameSettings /\ OutsideModel /\ Pressed

ComposeConfirmSend ==
    /\ Alive /\ m_state = "viewComposeConfirm" /\ CanIssue(1)
    /\ Goto(m_state, TRUE, m_err)
    /\ cmds' = Append(cmds, sendEmailCmd(m_draftID))
    /\ SameSettings /\ OutsideModel /\ Pressed

ComposeConfirmSave ==
    /\ Alive /\ m_state = "viewComposeConfirm" /\ CanIssue(1)
    /\ Goto(m_state, TRUE, m_err)
    /\ cmds' = Append(cmds, saveDraftCmd(m_draftID))
    /\ SameSettings /\ OutsideModel /\ Pressed

ComposeConfirmDiscard ==
    /\ Alive /\ m_state = "viewComposeConfirm"
    /\ Goto("viewMailboxes", m_loading, m_err)
    /\ UNCHANGED cmds /\ SameSettings /\ OutsideModel /\ Pressed

\* "e" on the confirmation runs the editor again
ComposeConfirmEdit ==
    /\ Alive /\ m_state = "viewComposeConfirm"
    /\ \E editorOk \in BOOLEAN :
          IF editorOk THEN Goto("viewComposeConfirm", m_loading, m_err)
          ELSE Goto(m_state, m_loading, "editor error")
    /\ UNCHANGED cmds /\ SameSettings /\ OutsideModel /\ Pressed

\* ---- keys in the navigation states ----
\* any key while an error is shown clears the error and does nothing else
KeyClearsError ==
    /\ Alive /\ m_state \notin ComposeStates /\ m_err # Nil
    /\ Goto(m_state, m_loading, Nil)
    /\ UNCHANGED cmds /\ SameSettings /\ OutsideModel /\ Pressed

Key0 ==
    /\ Nav
    /\ Goto("viewMainMenu", m_loading, m_err)
    /\ UNCHANGED cmds /\ SameSettings /\ OutsideModel /\ Pressed

\* the command that loads the mailbox list in the current mode
MailboxListCmd == IF m_offlineMode THEN fetchMailboxesOffline ELSE fetchMailboxesCmd

Key1 ==
    /\ Nav /\ CanIssue(1)
    /\ Goto("viewMailboxes", TRUE, m_err)
    /\ cmds' = Append(cmds, MailboxListCmd)
    /\ SameSettings /\ OutsideModel /\ Pressed

Key4 ==
    /\ Nav
    /\ Goto("viewSettings", m_loading, m_err)
    /\ UNCHANGED cmds /\ SameSettings /\ OutsideModel /\ Pressed

\* m.emails without the selected one, and the cursor after that
RemoveSelected ==
    [k \in 1..(Len(m_emails) - 1) |->
        IF k <= m_emailCursor THEN m_emails[k] ELSE m_emails[k + 1]]
CursorAfterRemove ==
    IF m_emailCursor < Len(m_emails) - 1 THEN m_emailCursor
    ELSE IF m_emailCursor > 0 THEN m_emailCursor - 1 ELSE m_emailCursor

\* a delete key that starts the mailbox refresh together with the delete
KeyDWithRefresh ==
    /\ Nav /\ m_state = "viewEmails" /\ Len(m_emails) > 0 /\ CanIssue(2)
    /\ IF EmailInRange
       THEN /\ SetView(m_state, m_mailboxes, m_mbCursor, RemoveSelected,
                       CursorAfterRemove, TRUE, m_canLoadMore, m_bodyContent, m_err)
            /\ cmds' = cmds \o <<deleteEmailCmd(selectedEmail.ID), fetchMailboxesCmd>>
       ELSE Crash /\ UNCHANGED cmds
    /\ SameSettings /\ OutsideModel /\ Pressed

KeyD ==
    /\ Nav /\ m_state = "viewEmails" /\ Len(m_emails) > 0 /\ CanIssue(1)
    /\ IF EmailInRange
       THEN /\ SetView(m_state, m_mailboxes, m_mbCursor, RemoveSelected,
                       CursorAfterRemove, TRUE, m_canLoadMore, m_bodyContent, m_err)
            /\ cmds' = Append(cmds, deleteEmailCmd(selectedEmail.ID))
       ELSE Crash /\ UNCHANGED cmds
    /\ SameSettings /\ OutsideModel /\ Pressed

KeyU ==
    /\ Nav /\ m_state = "viewEmails" /\ Len(m_emails) > 0 /\ CanIssue(1)
    /\ IF EmailInRange
       THEN /\ SetView(m_state, m_mailboxes, m_mbCursor,
                       [m_emails EXCEPT ![m_emailCursor + 1].IsUnread = ~@],
                       m_emailCursor, m_loading, m_canLoadMore, m_bodyContent, m_err)
            /\ cmds' = Append(cmds, toggleUnreadCmd(selectedEmail.ID,
                                                    ~selectedEmail.IsUnread))
       ELSE Crash /\ UNCHANGED cmds
    /\ SameSettings /\ OutsideModel /\ Pressed

KeyF ==
    /\ Nav /\ m_state = "viewEmails" /\ Len(m_emails) > 0 /\ CanIssue(1)
    /\ IF EmailInRange
       THEN /\ SetView(m_state, m_mailboxes, m_mbCursor,
                       [m_emails EXCEPT ![m_emailCursor + 1].IsFlagged = ~@],
                       m_emailCursor, m_loading, m_canLoadMore, m_bodyContent, m_err)
            /\ cmds' = Append(cmds, toggleFlaggedCmd(selectedEmail.ID,
                                                     ~selectedEmail.IsFlagged))
       ELSE Crash /\ UNCHANGED cmds
    /\ SameSettings /\ OutsideModel /\ Pressed

\* the first mailbox with role "archive", "" when there is none
ArchiveTarget ==
    IF \E k \in DOMAIN m_mailboxes : m_mailboxes[k].Role = "archive"
    THEN m_mailboxes[CHOOSE k \in DOMAIN m_mailboxes :
                        /\ m_mailboxes[k].Role = "archive"
                        /\ \A j \in 1..(k - 1) : m_mailboxes[j].Role # "archive"].ID
    ELSE ""

KeyE ==
    /\ Nav /\ m_state = "viewEmails" /\ Len(m_emails) > 0 /\ CanIssue(1)
    /\ ArchiveTarget # ""
    /\ IF EmailInRange /\ MailboxInRange
       THEN /\ SetView(m_state, m_mailboxes, m_mbCursor, RemoveSelected,
                       CursorAfterRemove, TRUE, m_canLoadMore, m_bodyContent, m_err)
            /\ cmds' = Append(cmds, moveEmailCmd(selectedEmail.ID, selectedMB.ID,
                                                 ArchiveTarget))
       ELSE Crash /\ UNCHANGED cmds
    /\ SameSettings /\ OutsideModel /\ Pressed

\* "c" composes a new email from any navigation state
KeyC ==
    /\ Nav
    /\ Goto("viewComposeTo", m_loading, m_err)
    /\ m_draftID' = ""
    /\ UNCHANGED <<cmds, m_offlineMode, m_menuCursor, m_settingsCursor>>
    /\ OutsideModel /\ Pressed

\* "R", "A", "F": reply, reply all, forward the email being read
KeyReply ==
    /\ Nav /\ m_state = "viewBody" /\ Len(m_emails) > 0
    /\ IF EmailInRange THEN Goto("viewComposeTo", m_loading, m_err) ELSE Crash
    /\ m_draftID' = ""
    /\ UNCHANGED <<cmds, m_offlineMode, m_menuCursor, m_settingsCursor>>
    /\ OutsideModel /\ Pressed

\* "m" on the main menu opens Mail without setting the loading flag
KeyM ==
    /\ Nav /\ m_state = "viewMainMenu" /\ CanIssue(1)
    /\ Goto("viewMailboxes", m_loading, m_err)
    /\ cmds' = Append(cmds, MailboxListCmd)
    /\ SameSettings /\ OutsideModel /\ Pressed

MenuLast == 3

KeyUp ==
    /\ Nav
    /\ \/ /\ m_state = "viewMainMenu" /\ m_menuCursor > 0
          /\ m_menuCursor' = m_menuCursor - 1
          /\ UNCHANGED <<m_state, m_mailboxes, m_mbCursor, m_emails, m_emailCursor>>
       \/ /\ m_state = "viewMailboxes" /\ m_mbCursor > 0
          /\ m_mbCursor' = m_mbCursor - 1
          /\ UNCHANGED <<m_state, m_mailboxes, m_menuCursor, m_emails, m_emailCursor>>
       \/ /\ m_state = "viewEmails" /\ m_emailCursor > 0
          /\ m_emailCursor' = m_emailCursor - 1
          /\ UNCHANGED <<m_state, m_mailboxes, m_menuCursor, m_emails, m_mbCursor>>
    /\ UNCHANGED <<m_loading, m_canLoadMore, m_bodyContent, m_err, cmds,
                   m_offlineMode, m_settingsCursor, m_draftID>>
    /\ OutsideModel /\ Pressed

KeyDown ==
    /\ Nav
    /\ \/ /\ m_state = "viewMainMenu" /\ m_menuCursor < MenuLast
          /\ m_menuCursor' = m_menuCursor + 1
          /\ UNCHANGED <<m_state, m_mailboxes, m_mbCursor, m_emails, m_emailCursor>>
       \/ /\ m_state = "viewMailboxes" /\ m_mbCursor < Len(m_mailboxes) - 1
          /\ m_mbCursor' = m_mbCursor + 1
          /\ UNCHANGED <<m_state, m_mailboxes, m_menuCursor, m_emails, m_emailCursor>>
       \/ /\ m_state = "viewEmails" /\ m_emailCursor < Len(m_emails) - 1
          /\ m_emailCursor' = m_emailCursor + 1
          /\ UNCHANGED <<m_state, m_mailboxes, m_menuCursor, m_emails, m_mbCursor>>
    /\ UNCHANGED <<m_loading, m_canLoadMore, m_bodyContent, m_err, cmds,
                   m_offlineMode, m_settingsCursor, m_draftID>>
    /\ OutsideModel /\ Pressed

\* "down" on the last email of the list asks for the next page
KeyDownLoadMore ==
    /\ Nav /\ m_state = "viewEmails" /\ ~(m_emailCursor < Len(m_emails) - 1)
    /\ m_canLoadMore /\ ~m_loading /\ CanIssue(1)
    /\ IF MailboxInRange
       THEN /\ Goto(m_state, TRUE, m_err)
            /\ cmds' = Append(cmds, fetchEmailsCmd(selectedMB.ID, Len(m_emails)))
       ELSE Crash /\ UNCHANGED cmds
    /\ SameSettings /\ OutsideModel /\ Pressed

\* mainMenuItems: Mail, Calendar, Contacts, Settings
EnterMenuMail ==
    /\ Nav /\ m_state = "viewMainMenu" /\ m_menuCursor = 0 /\ CanIssue(1)
    /\ Goto("viewMailboxes", TRUE, m_err)
    /\ cmds' = Append(cmds, MailboxListCmd)
    /\ SameSettings /\ OutsideModel /\ Pressed

EnterMenuSettings ==
    /\ Nav /\ m_state = "viewMainMenu" /\ m_menuCursor = MenuLast
    /\ Goto("viewSettings", m_loading, m_err)
    /\ UNCHANGED cmds /\ SameSettings /\ OutsideModel /\ Pressed

\* Enter on a mailbox opens its email list
EnterMailbox ==
    /\ Nav /\ m_state = "viewMailboxes" /\ Len(m_mailboxes) > 0 /\ CanIssue(1)
    /\ IF MailboxInRange
       THEN /\ SetView("viewEmails", m_mailboxes, m_mbCursor, <<>>, 0, TRUE, TRUE,
                       m_bodyContent, m_err)
            /\ cmds' = Append(cmds, fetchEmailsCmd(selectedMB.ID, 0))
       ELSE Crash /\ UNCHANGED cmds
    /\ SameSettings /\ OutsideModel /\ Pressed

\* Enter on an email opens its body
EnterEmail ==
    /\ Nav /\ m_state = "viewEmails" /\ Len(m_emails) > 0 /\ CanIssue(1)
    /\ IF EmailInRange
       THEN /\ Goto("viewBody", TRUE, m_err)
            /\ cmds' = Append(cmds, fetchEmailBodyCmd(selectedEmail.ID))
       ELSE Crash /\ UNCHANGED cmds
    /\ SameSettings /\ OutsideModel /\ Pressed

SetConfigRows(tbl, key, value) == Put(tbl, key, value)

\* Enter in the settings toggles offline mode and stores it; the error of
\* SetConfig is not looked at, so a write that failed goes unnoticed
EnterSettings ==
    /\ Nav /\ m_state = "viewSettings" /\ m_settingsCursor = 0
    /\ m_offlineMode' = ~m_offlineMode
    /\ \E ok \in BOOLEAN :
          config' = IF hasDB /\ ok
                    THEN SetConfigRows(config, "offline_mode",
                                       IF ~m_offlineMode THEN "true" ELSE "false")
                    ELSE config
    /\ UNCHANGED <<m_state, m_menuCursor, m_settingsCursor, m_mailboxes, m_mbCursor,
                   m_emails, m_emailCursor, m_loading, m_canLoadMore, m_bodyContent,
                   m_draftID, m_err, cmds>>
    /\ UNCHANGED <<mailboxes, emails, email_mailboxes, pending_actions, action_seq,
                   local_drafts, clock>>
    /\ UNCHANGED <<replayVars, lastSaved, callerVars, tx, remoteVars, replayHist, delivered, hasDB, calVars>>
    /\ Pressed

KeyEsc ==
    /\ Nav
    /\ \/ /\ m_state \in {"viewMailboxes", "viewSettings"}
          /\ Goto("viewMainMenu", m_loading, m_err)
          /\ UNCHANGED cmds
       \/ /\ m_state = "viewBody"
          /\ SetView("viewEmails", m_mailboxes, m_mbCursor, m_emails, m_emailCursor,
                     m_loading, m_canLoadMore, "", m_err)
          /\ UNCHANGED cmds
    /\ SameSettings /\ OutsideModel /\ Pressed

\* Esc on the email list returns to the mailboxes and refreshes their counts
EscEmails ==
    /\ Nav /\ m_state = "viewEmails" /\ CanIssue(1)
    /\ SetView("viewMailboxes", m_mailboxes, m_mbCursor, <<>>, m_emailCursor,
               m_loading, m_canLoadMore, m_bodyContent, m_err)
    /\ cmds' = Append(cmds, fetchMailboxesCmd)
    /\ SameSettings /\ OutsideModel /\ Pressed

RefreshMailboxes ==
    /\ Nav /\ m_state = "viewMailboxes" /\ CanIssue(1)
    /\ Goto(m_state, TRUE, m_err)
    /\ cmds' = Append(cmds, fetchMailboxesCmd)
    /\ SameSettings /\ OutsideModel /\ Pressed

\* "r" on the email list: tea.Batch of the two refreshes
RefreshEmails ==
    /\ Nav /\ m_state = "viewEmails" /\ Len(m_mailboxes) > 0 /\ CanIssue(2)
    /\ IF MailboxInRange
       THEN /\ Goto(m_state, TRUE, m_err)
            /\ cmds' = cmds \o <<fetchMailboxesCmd, refreshEmailsCmd(selectedMB.ID)>>
       ELSE Crash /\ UNCHANGED cmds
    /\ SameSettings /\ OutsideModel /\ Pressed

InitTui ==
    /\ InitStore
    /\ InitReplay
    /\ InitHist
    /\ InitModel
    /\ hasDB \in BOOLEAN
    /\ m_offlineMode \in BOOLEAN

NextTui ==
    \/ \E i \in DOMAIN cmds : RemoteReadOk(i)
    \/ \E i \in DOMAIN cmds : RemoteReadFail(i)
    \/ \E i \in DOMAIN cmds : WriteThrough(i)
    \/ \E i \in DOMAIN cmds : RemoteMutateOk(i)
    \/ \E i \in DOMAIN cmds : RemoteMutateFail(i)
    \/ \E i \in DOMAIN cmds : LocalRead(i)
    \/ \E i \in DOMAIN cmds : DropNil(i)
    \/ \E i \in DOMAIN cmds : OnMailboxesLoaded(i)
    \/ \E i \in DOMAIN cmds : OnEmailsLoaded(i)
    \/ \E i \in DOMAIN cmds : OnEmailsRefreshed(i)
    \/ \E i \in DOMAIN cmds : OnEmailBodyLoaded(i)
    \/ \E i \in DOMAIN cmds : OnDraftSavedOrSent(i)
    \/ \E i \in DOMAIN cmds : OnEmailDeleted(i)
    \/ \E i \in DOMAIN cmds : OnError(i)
    \/ ComposeToEnter
    \/ ComposeToEsc
    \/ ComposeSubjectEnter
    \/ ComposeSubjectEsc
    \/ ComposeConfirmSend
    \/ ComposeConfirmSave
    \/ ComposeConfirmDiscard
    \/ ComposeConfirmEdit
    \/ KeyClearsError
    \/ Key0
    \/ Key1
    \/ Key4
    \/ KeyD
    \/ KeyU
    \/ KeyF
    \/ KeyE
    \/ KeyC
    \/ KeyReply
    \/ KeyM
    \/ KeyUp
    \/ KeyDown
    \/ KeyDownLoadMore
    \/ EnterMenuMail
    \/ EnterMenuSettings
    \/ EnterMailbox
    \/ EnterEmail
    \/ EnterSettings
    \/ KeyEsc
    \/ EscEmails
    \/ RefreshMailboxes
    \/ RefreshEmails

SpecTui == InitTui /\ [][NextTui]_vars

(***************************************************************************)
(* SpecUpdate: the whole of Update, the mail part above together with the  *)
(* calendar and the contacts.  A server holds at most one calendar, one    *)
(* event, one address book and one contact, the cursors of these lists     *)
(* stay on the first entry and the event and contact forms are left out.   *)
(* m.client is never nil.                                                  *)
(***************************************************************************)
CalendarKinds == {"fetchCalendarsCmd", "fetchEventsCmd", "deleteEventCmd"}
ContactKinds == {"fetchAddressBooksCmd", "fetchContactsCmd", "deleteContactCmd"}
CalendarContactKinds == CalendarKinds \cup ContactKinds

fetchCalendarsCmd == NewCmd("fetchCalendarsCmd", "", "", "", FALSE, 0)
\* calendarIDs holds at most one id here: the command records it, or ""
fetchEventsCmd(calendarIDs) ==
    NewCmd("fetchEventsCmd", "", "",
           IF calendarIDs = <<>> THEN "" ELSE calendarIDs[1], FALSE, 0)
deleteEventCmd(eventID) == NewCmd("deleteEventCmd", "", "", eventID, FALSE, 0)
fetchAddressBooksCmd == NewCmd("fetchAddressBooksCmd", "", "", "", FALSE, 0)
fetchContactsCmd(addressBookID) ==
    NewCmd("fetchContactsCmd", "", "", addressBookID, FALSE, 0)
deleteContactCmd(contactID) == NewCmd("deleteContactCmd", "", "", contactID, FALSE, 0)

\* what FetchCalendars, FetchEvents, FetchAddressBooks and FetchContacts return
CalendarLists ==
    {<<>>} \cup {<<[ID |-> "c1", IsVisible |-> v, MayReadItems |-> r]>> :
                    v \in BOOLEAN, r \in BOOLEAN}
EventLists == {<<>>, <<"ev1">>}
AddressBookLists ==
    {<<>>} \cup {<<[ID |-> "ab1", IsDefault |-> d, MayReadItems |-> r]>> :
                    d \in BOOLEAN, r \in BOOLEAN}
ContactLists == {<<>>, <<"ct1">>}

\* "if cal.IsVisible && cal.MayReadItems { calIDs = append(calIDs, cal.ID) }"
IsShown(cal) == cal.IsVisible /\ cal.MayReadItems
VisibleCalIDs(cals) ==
    [k \in 1..Len(SelectSeq(cals, IsShown)) |-> SelectSeq(cals, IsShown)[k].ID]

\* the address book whose contacts are fetched once the books are loaded
IsDefaultReadable(ab) == ab.IsDefault /\ ab.MayReadItems
DefaultAB(abs) ==
    IF SelectSeq(abs, IsDefaultReadable) # <<>>
        THEN SelectSeq(abs, IsDefaultReadable)[1].ID
    ELSE IF Len(abs) > 0 /\ abs[1].MayReadItems THEN abs[1].ID
    ELSE ""

\* m.addressBooks[m.addressBookCursor].ID, or "" past the end of the list
CursorAB == IF 0 < Len(m_addressBooks) THEN m_addressBooks[1].ID ELSE ""

\* the message a calendar or contacts command returns when its call succeeded
CalendarResults(c) ==
    IF c.kind = "fetchCalendarsCmd"
        THEN {Msg("calendarsLoadedMsg", cals) : cals \in CalendarLists}
    ELSE IF c.kind = "fetchEventsCmd"
        THEN {Msg("eventsLoadedMsg", evs) : evs \in EventLists}
    ELSE IF c.kind = "fetchAddressBooksCmd"
        THEN {Msg("addressBooksLoadedMsg", abs) : abs \in AddressBookLists}
    ELSE IF c.kind = "fetchContactsCmd"
        THEN {Msg("contactsLoadedMsg", cts) : cts \in ContactLists}
    ELSE IF c.kind = "deleteEventCmd" THEN {Msg("eventDeletedMsg", "")}
    ELSE {Msg("contactDeletedMsg", "")}

\* what a step of the calendar and contacts part leaves alone outside m
OutsideCalendar ==
    UNCHANGED <<storeVars, replayVars, lastSaved, callerVars, tx, remoteVars, replayHist,
                delivered, hasDB>>

\* the remote call of a calendar or contacts command succeeds
CalendarCallOk(i) ==
    /\ Alive
    /\ cmds[i].stage = "run"
    /\ cmds[i].kind \in CalendarContactKinds
    /\ \E msg \in CalendarResults(cmds[i]) :
          cmds' = [cmds EXCEPT ![i].stage = "msg", ![i].msg = msg]
    /\ UNCHANGED <<calVars, keys, modelVars>> /\ OutsideCalendar

\* the remote call of a calendar or contacts command fails
CalendarCallFail(i) ==
    /\ Alive
    /\ cmds[i].stage = "run"
    /\ cmds[i].kind \in CalendarContactKinds
    /\ cmds' = [cmds EXCEPT ![i] = AfterReadFailure(cmds[i])]
    /\ UNCHANGED <<calVars, keys, modelVars>> /\ OutsideCalendar

OnCalendarsLoaded(i) ==
    /\ Ready(i, "calendarsLoadedMsg")
    /\ m_calendars' = cmds[i].msg.payload
    /\ Goto(m_state, FALSE, m_err)
    /\ cmds' = IF /\ Len(cmds[i].msg.payload) > 0
                  /\ Len(VisibleCalIDs(cmds[i].msg.payload)) > 0
               THEN Append(Without(cmds, i),
                           fetchEventsCmd(VisibleCalIDs(cmds[i].msg.payload)))
               ELSE Without(cmds, i)
    /\ UNCHANGED <<m_events, m_addressBooks, m_contacts, keys>>
    /\ SameSettings /\ OutsideCalendar

OnEventsLoaded(i) ==
    /\ Ready(i, "eventsLoadedMsg")
    /\ m_events' = cmds[i].msg.payload
    /\ Goto(m_state, FALSE, m_err)
    /\ cmds' = Without(cmds, i)
    /\ UNCHANGED <<m_calendars, m_addressBooks, m_contacts, keys>>
    /\ SameSettings /\ OutsideCalendar

OnAddressBooksLoaded(i) ==
    /\ Ready(i, "addressBooksLoadedMsg")
    /\ m_addressBooks' = cmds[i].msg.payload
    /\ Goto(m_state, FALSE, m_err)
    /\ cmds' = IF /\ Len(cmds[i].msg.payload) > 0
                  /\ DefaultAB(cmds[i].msg.payload) # ""
               THEN Append(Without(cmds, i),
                           fetchContactsCmd(DefaultAB(cmds[i].msg.payload)))
               ELSE Without(cmds, i)
    /\ UNCHANGED <<m_calendars, m_events, m_contacts, keys>>
    /\ SameSettings /\ OutsideCalendar

OnContactsLoaded(i) ==
    /\ Ready(i, "contactsLoadedMsg")
    /\ m_contacts' = cmds[i].msg.payload
    /\ Goto(m_state, FALSE, m_err)
    /\ cmds' = Without(cmds, i)
    /\ UNCHANGED <<m_calendars, m_events, m_addressBooks, keys>>
    /\ SameSettings /\ OutsideCalendar

OnEventDeleted(i) ==
    /\ Ready(i, "eventDeletedMsg")
    /\ Goto(m_state, FALSE, m_err)
    /\ cmds' = IF Len(m_calendars) > 0
               THEN Append(Without(cmds, i), fetchEventsCmd(VisibleCalIDs(m_calendars)))
               ELSE Without(cmds, i)
    /\ UNCHANGED <<calVars, keys>>
    /\ SameSettings /\ OutsideCalendar

OnContactDeleted(i) ==
    /\ Ready(i, "contactDeletedMsg")
    /\ Goto(m_state, FALSE, m_err)
    /\ cmds' = IF Len(m_addressBooks) > 0
               THEN Append(Without(cmds, i), fetchContactsCmd(CursorAB))
               ELSE Without(cmds, i)
    /\ UNCHANGED <<calVars, keys>>
    /\ SameSettings /\ OutsideCalendar

\* "2": to the calendar, loading the calendars when none is held and online
Key2 ==
    /\ Nav
    /\ IF Len(m_calendars) = 0 /\ ~m_offlineMode
       THEN /\ CanIssue(1)
            /\ Goto("viewCalendar", TRUE, m_err)
            /\ cmds' = Append(cmds, fetchCalendarsCmd)
       ELSE /\ Goto("viewCalendar", m_loading, m_err)
            /\ UNCHANGED cmds
    /\ UNCHANGED calVars /\ SameSettings /\ OutsideCalendar /\ Pressed

\* "3": to the contacts, loading the address books when none is held and online
Key3 ==
    /\ Nav
    /\ IF Len(m_addressBooks) = 0 /\ ~m_offlineMode
       THEN /\ CanIssue(1)
            /\ Goto("viewContacts", TRUE, m_err)
            /\ cmds' = Append(cmds, fetchAddressBooksCmd)
       ELSE /\ Goto("viewContacts", m_loading, m_err)
            /\ UNCHANGED cmds
    /\ UNCHANGED calVars /\ SameSettings /\ OutsideCalendar /\ Pressed

\* Enter on the menu item Calendar
EnterMenuCalendar ==
    /\ Nav /\ m_state = "viewMainMenu" /\ m_menuCursor = 1
    /\ IF ~m_offlineMode
       THEN /\ CanIssue(1)
            /\ Goto("viewCalendar", TRUE, m_err)
            /\ cmds' = Append(cmds, fetchCalendarsCmd)
       ELSE /\ Goto("viewCalendar", m_loading, m_err)
            /\ UNCHANGED cmds
    /\ UNCHANGED calVars /\ SameSettings /\ OutsideCalendar /\ Pressed

\* Enter on the menu item Contacts
EnterMenuContacts ==
    /\ Nav /\ m_state = "viewMainMenu" /\ m_menuCursor = 2
    /\ IF ~m_offlineMode
       THEN /\ CanIssue(1)
            /\ Goto("viewContacts", TRUE, m_err)
            /\ cmds' = Append(cmds, fetchAddressBooksCmd)
       ELSE /\ Goto("viewContacts", m_loading, m_err)
            /\ UNCHANGED cmds
    /\ UNCHANGED calVars /\ SameSettings /\ OutsideCalendar /\ Pressed

\* "r" on the calendar reloads the events of the visible calendars
RefreshCalendar ==
    /\ Nav /\ m_state = "viewCalendar" /\ ~m_offlineMode /\ CanIssue(1)
    /\ Goto(m_state, TRUE, m_err)
    /\ cmds' = Append(cmds, fetchEventsCmd(VisibleCalIDs(m_calendars)))
    /\ UNCHANGED calVars /\ SameSettings /\ OutsideCalendar /\ Pressed

\* "r" on the contacts reloads the contacts of the address book under the cursor
RefreshContacts ==
    /\ Nav /\ m_state = "viewContacts" /\ ~m_offlineMode /\ CanIssue(1)
    /\ Goto(m_state, TRUE, m_err)
    /\ cmds' = Append(cmds, fetchContactsCmd(CursorAB))
    /\ UNCHANGED calVars /\ SameSettings /\ OutsideCalendar /\ Pressed

\* "d" on the calendar deletes the event under the cursor
KeyDEvent ==
    /\ Nav /\ m_state = "viewCalendar" /\ Len(m_events) > 0 /\ ~m_offlineMode
    /\ CanIssue(1)
    /\ Goto(m_state, TRUE, m_err)
    /\ m_events' = Tail(m_events)
    /\ cmds' = Append(cmds, deleteEventCmd(m_events[1]))
    /\ UNCHANGED <<m_calendars, m_addressBooks, m_contacts>>
    /\ SameSettings /\ OutsideCalendar /\ Pressed

\* "d" on the contacts deletes the contact under the cursor
KeyDContact ==
    /\ Nav /\ m_state = "viewContacts" /\ Len(m_contacts) > 0 /\ ~m_offlineMode
    /\ CanIssue(1)
    /\ Goto(m_state, TRUE, m_err)
    /\ m_contacts' = Tail(m_contacts)
    /\ cmds' = Append(cmds, deleteContactCmd(m_contacts[1]))
    /\ UNCHANGED <<m_calendars, m_events, m_addressBooks>>
    /\ SameSettings /\ OutsideCalendar /\ Pressed

\* Esc on the calendar or the contacts returns to the main menu
EscCalendar ==
    /\ Nav /\ m_state \in {"viewCalendar", "viewContacts"}
    /\ Goto("viewMainMenu", m_loading, m_err)
    /\ UNCHANGED <<cmds, calVars>> /\ SameSettings /\ OutsideCalendar /\ Pressed

NextCalendar ==
    \/ \E i \in DOMAIN cmds : CalendarCallOk(i)
    \/ \E i \in DOMAIN cmds : CalendarCallFail(i)
    \/ \E i \in DOMAIN cmds : OnCalendarsLoaded(i)
    \/ \E i \in DOMAIN cmds : OnEventsLoaded(i)
    \/ \E i \in DOMAIN cmds : OnAddressBooksLoaded(i)
    \/ \E i \in DOMAIN cmds : OnContactsLoaded(i)
    \/ \E i \in DOMAIN cmds : OnEventDeleted(i)
    \/ \E i \in DOMAIN cmds : OnContactDeleted(i)
    \/ Key2
    \/ Key3
    \/ EnterMenuCalendar
    \/ EnterMenuContacts
    \/ RefreshCalendar
    \/ RefreshContacts
    \/ KeyDEvent
    \/ KeyDContact
    \/ EscCalendar

\* Model.Init: "Pre-fetch identities on startup if online"
fetchIdentitiesCmd == NewCmd("fetchIdentitiesCmd", "", "", "", FALSE, 0)
StartupCmds == IF ~m_offlineMode THEN <<fetchIdentitiesCmd>> ELSE <<>>

\* GetIdentities returns: the addresses are not looked at here
IdentitiesCallOk(i) ==
    /\ Alive
    /\ cmds[i].stage = "run"
    /\ cmds[i].kind = "fetchIdentitiesCmd"
    /\ cmds' = [cmds EXCEPT ![i].stage = "msg", ![i].msg = Msg("identitiesLoadedMsg", "")]
    /\ UNCHANGED <<calVars, keys, modelVars>> /\ OutsideCalendar

IdentitiesCallFail(i) ==
    /\ Alive
    /\ cmds[i].stage = "run"
    /\ cmds[i].kind = "fetchIdentitiesCmd"
    /\ cmds' = [cmds EXCEPT ![i] = AfterReadFailure(cmds[i])]
    /\ UNCHANGED <<calVars, keys, modelVars>> /\ OutsideCalendar

\* m.identities = msg: nothing else of m changes and no command follows
OnIdentitiesLoaded(i) ==
    /\ Ready(i, "identitiesLoadedMsg")
    /\ cmds' = Without(cmds, i)
    /\ UNCHANGED <<calVars, keys, modelVars>> /\ OutsideCalendar

NextStartup ==
    \/ \E i \in DOMAIN cmds : IdentitiesCallOk(i)
    \/ \E i \in DOMAIN cmds : IdentitiesCallFail(i)
    \/ \E i \in DOMAIN cmds : OnIdentitiesLoaded(i)

\* the key presses left to a run of SpecUpdate out of the budget MaxKeys
UpdateKeys == 4

\* the state after NewModelWithStorage, with UpdateKeys key presses to come
InitUpdate ==
    /\ InitStore
    /\ InitReplay
    /\ InitHist
    /\ m_state = "viewMainMenu"
    /\ m_menuCursor = 0
    /\ m_settingsCursor = 0
    /\ m_mailboxes = <<>>
    /\ m_mbCursor = 0
    /\ m_emails = <<>>
    /\ m_emailCursor = 0
    /\ m_loading = FALSE
    /\ m_canLoadMore = FALSE
    /\ m_bodyContent = ""
    /\ m_draftID = ""
    /\ m_err = Nil
    /\ m_calendars = <<>>
    /\ m_events = <<>>
    /\ m_addressBooks = <<>>
    /\ m_contacts = <<>>
    /\ delivered = NoResult
    /\ keys = MaxKeys - UpdateKeys
    /\ hasDB \in BOOLEAN
    /\ m_offlineMode \in BOOLEAN
    /\ cmds = StartupCmds

NextUpdate == NextTui \/ NextCalendar \/ NextStartup

SpecUpdate == InitUpdate /\ [][NextUpdate]_vars

\* a step of a command's goroutine or of Update on a message: no key press
RuntimeStep == NextUpdate /\ keys' = keys

\* SpecUpdateFair: every goroutine runs on, every remote call returns and
\* the runtime hands every message to Update; key presses stay optional
SpecUpdateFair == SpecUpdate /\ WF_vars(RuntimeStep)


(***************************************************************************)
(* SpecPaging: the email list of mailboxes that hold 19, 20 and 21 emails, *)
(* loaded page by page.  The server here is fixed: what a mailbox holds    *)
(* follows from its id, and FetchEmails returns the page at the position   *)
(* asked for, never more than its limit.                                   *)
(***************************************************************************)
PagingMailboxIds == <<"m19", "m20", "m21">>
TotalIn(mailboxID) ==
    IF mailboxID = "m19" THEN 19 ELSE IF mailboxID = "m20" THEN 20 ELSE 21

PagingMailboxList == [k \in DOMAIN PagingMailboxIds |-> MailboxRecord(PagingMailboxIds[k])]

ItemNames ==
    <<"01", "02", "03", "04", "05", "06", "07", "08", "09", "10", "11",
      "12", "13", "14", "15", "16", "17", "18", "19", "20", "21">>

\* the k-th newest email of a mailbox
ItemOf(mailboxID, k) ==
    RemoteEmail(mailboxID \o "-" \o ItemNames[k], TRUE, {mailboxID})

\* const limit = 20; Limit: limit, Position: int64(position)
FetchLimit == 20
PageLen(mailboxID, position) ==
    IF TotalIn(mailboxID) - position <= 0 THEN 0
    ELSE IF TotalIn(mailboxID) - position > FetchLimit THEN FetchLimit
    ELSE TotalIn(mailboxID) - position

PagingPage(mailboxID, position) ==
    [k \in 1..PageLen(mailboxID, position) |-> ItemOf(mailboxID, position + k)]

\* the message an online read returns from this server
PagingResult(c) ==
    IF c.kind = "fetchMailboxesCmd" THEN Msg("mailboxesLoadedMsg", PagingMailboxList)
    ELSE IF c.kind = "fetchEmailsCmd"
        THEN Msg("emailsLoadedMsg", PagingPage(c.mb, c.off))
    ELSE Msg("emailsRefreshedMsg", PagingPage(c.mb, 0))

PagingReadOk(i) ==
    /\ Alive
    /\ cmds[i].stage = "run"
    /\ cmds[i].kind \in {"fetchMailboxesCmd", "fetchEmailsCmd", "refreshEmailsCmd"}
    /\ cmds' = [cmds EXCEPT ![i].stage = "store", ![i].msg = PagingResult(cmds[i])]
    /\ UNCHANGED <<storeVars, replayVars, lastSaved, callerVars, tx, remoteVars, replayHist, delivered, hasDB, calVars, keys,
                   modelVars>>

\* "down" on the email list above its last entry; any number of these presses
\* is followed here
EmailCursorDown ==
    /\ Nav /\ m_state = "viewEmails" /\ m_emailCursor < Len(m_emails) - 1
    /\ m_emailCursor' = m_emailCursor + 1
    /\ UNCHANGED <<m_state, m_mailboxes, m_menuCursor, m_emails, m_mbCursor, m_loading,
                   m_canLoadMore, m_bodyContent, m_err, cmds, m_offlineMode,
                   m_settingsCursor, m_draftID, keys>>
    /\ OutsideModel

InitPaging ==
    /\ InitStore
    /\ InitReplay
    /\ InitHist
    /\ InitModel
    /\ hasDB = TRUE
    /\ m_offlineMode = FALSE

NextPaging ==
    \/ Key1
    \/ KeyDown
    \/ EnterMailbox
    \/ EmailCursorDown
    \/ KeyDownLoadMore
    \/ RefreshEmails
    \/ \E i \in DOMAIN cmds : PagingReadOk(i)
    \/ \E i \in DOMAIN cmds : WriteThrough(i)
    \/ \E i \in DOMAIN cmds : OnMailboxesLoaded(i)
    \/ \E i \in DOMAIN cmds : OnEmailsLoaded(i)
    \/ \E i \in DOMAIN cmds : OnEmailsRefreshed(i)

SpecPaging == InitPaging /\ [][NextPaging]_vars

(***************************************************************************)
(* SpecBody: emails saved with or without a preview, bodies saved or       *)
(* emptied, and GetEmailBody called on the store as it is.                 *)
(***************************************************************************)
Previews == {"", "p"}
BodyTexts == {"", "b"}

\* list entries as SaveEmails receives them: no body, a preview or none
BodyEmailInputs ==
    [ID : EmailIds, Date : {1}, IsUnread : {TRUE}, IsFlagged : {FALSE},
     Preview : Previews, Body : {""}, MailboxIDs : {{"m1"}}]

CallGetEmailBody ==
    /\ \E id \in EmailIds :
          delivered' = [cmd |-> "GetEmailBody", failing |-> FALSE,
                        miss |-> (id \notin DOMAIN emails),
                        msg |-> Msg(id, GetEmailBody(id))]
    /\ UNCHANGED <<storeVars, replayVars, lastSaved, callerVars, tx, remoteVars, replayHist, hasDB, calVars, keys, modelVars, cmds>>

InitBody ==
    /\ InitStore
    /\ InitReplay
    /\ InitHist
    /\ InitNoUi

NextBody ==
    \/ \E e \in BodyEmailInputs, ok \in BOOLEAN : SaveEmails(<<e>>, ok)
    \/ \E id \in EmailIds, body \in BodyTexts, ok \in BOOLEAN : SaveEmailBody(id, body, ok)
    \/ CallGetEmailBody

SpecBody == InitBody /\ [][NextBody]_vars

(***************************************************************************)
(* SpecMailboxes: any sequence of SaveMailboxes calls on an empty store,   *)
(* made by a caller that remembers the list of its latest committed call.  *)
(***************************************************************************)
MaxList == 2
MaxSortOrder == 2
MaxSaves == 3

\* role, parent id and unread count of a mailbox, varied together
MailboxVariants ==
    {[Role |-> "inbox", ParentID |-> "", UnreadCount |-> 0],
     [Role |-> "", ParentID |-> "m1", UnreadCount |-> 1]}

\* the mailboxes a caller hands to SaveMailboxes
MailboxInputs ==
    {[ID |-> id, Name |-> n, Role |-> v.Role, ParentID |-> v.ParentID,
      SortOrder |-> so, UnreadCount |-> v.UnreadCount] :
        id \in MailboxIds, n \in Range(MailboxNames), so \in 1..MaxSortOrder,
        v \in MailboxVariants}

CallSaveMailboxes(list, ok) ==
    /\ saves < MaxSaves
    /\ SaveMailboxes(list, ok)
    /\ IF ok
       THEN lastList' = list /\ saves' = saves + 1
       ELSE UNCHANGED callerVars

InitMailboxes ==
    /\ InitStore
    /\ InitReplay
    /\ InitHist
    /\ InitNoUi

NextMailboxes ==
    \E list \in SeqsUpTo(MailboxInputs, MaxList), ok \in BOOLEAN :
        CallSaveMailboxes(list, ok)

SpecMailboxes == InitMailboxes /\ [][NextMailboxes]_vars

(***************************************************************************)
(* SpecTx: the multi-row writes run statement by statement inside their    *)
(* transaction (tx.Begin ... tx.Commit, defer tx.Rollback) while a reader  *)
(* on another connection of the pool reads the tables.  SQLite admits one  *)
(* write transaction at a time; its statements change a working copy that  *)
(* replaces the tables at Commit and is dropped at Rollback.               *)
(***************************************************************************)
NoTx(outcome) == [op |-> "none", outcome |-> outcome]

Tables == [mailboxes |-> mailboxes, emails |-> emails, email_mailboxes |-> email_mailboxes]

\* DeleteEmail: DELETE FROM email_mailboxes WHERE email_id = ?, then
\* DELETE FROM emails WHERE id = ?
DeleteEmailTables(t, emailID) ==
    [t EXCEPT !.email_mailboxes = {p \in t.email_mailboxes : p[1] # emailID},
              !.emails = [x \in DOMAIN t.emails \ {emailID} |-> t.emails[x]]]

\* a move that takes the email out of the source mailbox and stops there
MoveEmailTablesNoInsert(t, emailID, from, to) ==
    [t EXCEPT !.email_mailboxes = t.email_mailboxes \ {<<emailID, from>>}]
\* a move that clears every membership of the email before adding the target
MoveEmailTablesOnly(t, emailID, from, to) ==
    [t EXCEPT !.email_mailboxes = {p \in t.email_mailboxes : p[1] # emailID}
                                      \cup {<<emailID, to>>}]


\* MoveEmail: DELETE the (email, from) row, then INSERT OR REPLACE (email, to)
MoveEmailTables(t, emailID, from, to) ==
    [t EXCEPT !.email_mailboxes = (t.email_mailboxes \ {<<emailID, from>>})
                                      \cup {<<emailID, to>>}]

\* the patch Client.MoveEmail sends for the email's mailboxIds: the target
\* set to true, the source set to null when it is another mailbox
MovePatch(mbs, fromMailboxID, toMailboxID) ==
    (IF fromMailboxID # toMailboxID THEN mbs \ {fromMailboxID} ELSE mbs)
        \cup {toMailboxID}

\* the calls a writer makes
TxEmail(id, mbs) == RemoteEmail(id, TRUE, mbs)
TxCalls ==
    {[op |-> "SaveMailboxes", list |-> <<MailboxRecord("m1"), MailboxRecord("m2")>>],
     [op |-> "SaveEmails", batch |-> <<TxEmail("e1", {"m1", "m2"})>>],
     [op |-> "SaveEmails", batch |-> <<TxEmail("e1", {"m2"}), TxEmail("e2", {"m1"})>>],
     [op |-> "DeleteEmail", id |-> "e1"],
     [op |-> "MoveEmail", id |-> "e2", from |-> "m1", to |-> "m2"]}

\* the tables after the whole call
PostOf(call, t) ==
    IF call.op = "SaveMailboxes"
        THEN [t EXCEPT !.mailboxes = SaveMailboxesRows(t.mailboxes, call.list)]
    ELSE IF call.op = "SaveEmails"
        THEN [t EXCEPT !.emails = SaveEmailsRows(t.emails, call.batch),
                       !.email_mailboxes = SaveEmailsMemberships(t.email_mailboxes, call.batch)]
    ELSE IF call.op = "DeleteEmail" THEN DeleteEmailTables(t, call.id)
    ELSE MoveEmailTables(t, call.id, call.from, call.to)

\* the INSERT statements of the inner loop of SaveEmails for one email, in
\* the order of e.MailboxIDs
RECURSIVE MembershipStatements(_, _)
MembershipStatements(id, mbs) ==
    IF mbs = {} THEN <<>>
    ELSE LET mb == CHOOSE x \in mbs : TRUE
         IN <<[stmt |-> "insertMembership", id |-> id, mb |-> mb]>>
                \o MembershipStatements(id, mbs \ {mb})

RECURSIVE EmailStatements(_)
EmailStatements(batch) ==
    IF batch = <<>> THEN <<>>
    ELSE <<[stmt |-> "upsertEmail", e |-> Head(batch)]>>
            \o MembershipStatements(Head(batch).ID, Head(batch).MailboxIDs)
            \o EmailStatements(Tail(batch))

\* the statements a call executes, in order
StatementsOf(call) ==
    IF call.op = "SaveMailboxes"
        THEN [k \in DOMAIN call.list |-> [stmt |-> "upsertMailbox", mb |-> call.list[k]]]
    ELSE IF call.op = "SaveEmails" THEN EmailStatements(call.batch)
    ELSE IF call.op = "DeleteEmail"
        THEN <<[stmt |-> "deleteMemberships", id |-> call.id],
               [stmt |-> "deleteEmail", id |-> call.id]>>
    ELSE <<[stmt |-> "deleteMembership", id |-> call.id, mb |-> call.from],
           [stmt |-> "insertMembership", id |-> call.id, mb |-> call.to]>>

\* one statement applied to the working copy
ApplyStatement(st, t) ==
    IF st.stmt = "upsertMailbox"
        THEN [t EXCEPT !.mailboxes = UpsertMailbox(t.mailboxes, st.mb)]
    ELSE IF st.stmt = "upsertEmail"
        THEN [t EXCEPT !.emails = UpsertEmail(t.emails, st.e)]
    ELSE IF st.stmt = "insertMembership"
        THEN [t EXCEPT !.email_mailboxes = t.email_mailboxes \cup {<<st.id, st.mb>>}]
    ELSE IF st.stmt = "deleteMemberships"
        THEN [t EXCEPT !.email_mailboxes = {p \in t.email_mailboxes : p[1] # st.id}]
    ELSE IF st.stmt = "deleteMembership"
        THEN [t EXCEPT !.email_mailboxes = t.email_mailboxes \ {<<st.id, st.mb>>}]
    ELSE [t EXCEPT !.emails = [x \in DOMAIN t.emails \ {st.id} |-> t.emails[x]]]

\* a reader that shares the writer's uncommitted view
ReaderViewDirty == IF tx.op = "none" THEN Tables ELSE tx.work

\* what a query on another connection reads: the committed tables
ReaderView == Tables

TxFrame ==
    /\ UNCHANGED <<pending_actions, action_seq, local_drafts, config, clock, remoteVars>>
    /\ UNCHANGED <<replayVars, lastSaved, callerVars, replayHist, hasDB, calVars, keys, modelVars, cmds>>

\* tx, err := d.db.Begin(); a failing Begin returns before any statement
TxBegin ==
    /\ tx.op = "none"
    /\ \E call \in TxCalls, ok \in BOOLEAN :
          tx' = IF ok
                THEN [op |-> call.op, call |-> call, stmts |-> StatementsOf(call),
                      pre |-> Tables, work |-> Tables]
                ELSE NoTx("rolledback")
    /\ UNCHANGED <<mailboxes, emails, email_mailboxes, delivered>>
    /\ TxFrame

\* stmt.Exec / tx.Exec: the statement changes the working copy; when it
\* fails the call returns and the deferred Rollback drops the copy
TxExec ==
    /\ tx.op # "none" /\ tx.stmts # <<>>
    /\ \E ok \in BOOLEAN :
          tx' = IF ok
                THEN [tx EXCEPT !.stmts = Tail(tx.stmts),
                                !.work = ApplyStatement(Head(tx.stmts), tx.work)]
                ELSE NoTx("rolledback")
    /\ UNCHANGED <<mailboxes, emails, email_mailboxes, delivered>>
    /\ TxFrame

\* return tx.Commit(): the working copy becomes the tables, or the commit
\* fails and the tables stay
TxCommit ==
    /\ tx.op # "none" /\ tx.stmts = <<>>
    /\ \E ok \in BOOLEAN :
          IF ok
          THEN /\ mailboxes' = tx.work.mailboxes
               /\ emails' = tx.work.emails
               /\ email_mailboxes' = tx.work.email_mailboxes
               /\ tx' = NoTx("committed")
          ELSE /\ UNCHANGED <<mailboxes, emails, email_mailboxes>>
               /\ tx' = NoTx("rolledback")
    /\ UNCHANGED delivered
    /\ TxFrame

\* a reader's query while the transaction is open
TxRead ==
    /\ tx.op # "none"
    /\ delivered' = [cmd |-> "read", failing |-> FALSE, miss |-> FALSE,
                     msg |-> Msg(Len(tx.stmts), ReaderView)]
    /\ UNCHANGED <<mailboxes, emails, email_mailboxes, tx>>
    /\ TxFrame

InitTx ==
    /\ InitStore
    /\ InitReplay
    /\ InitHist
    /\ InitNoUi

NextTx == TxBegin \/ TxExec \/ TxCommit \/ TxRead

SpecTx == InitTx /\ [][NextTx]_vars

(***************************************************************************)
(* SpecPromote: drafts are saved offline (a LocalDraft row and a queued    *)
(* save_draft action under a local-only id) and replay promotes them.      *)
(***************************************************************************)
LocalIds == {"local-1", "local-2"}

\* SaveLocalDraft: INSERT OR REPLACE INTO local_drafts
SaveLocalDraftRows(tbl, id, from, to, subject, body) ==
    Put(tbl, id, [from_addr |-> from, to_addr |-> to, subject |-> subject, body |-> body])

\* DeleteLocalDraft: DELETE FROM local_drafts WHERE id = ?
DeleteLocalDraftRows(tbl, id) == [x \in DOMAIN tbl \ {id} |-> tbl[x]]

\* saveDraftOfflineCmd: a fresh local id, SaveLocalDraft (its error is
\* returned), then AddPendingAction("save_draft", localID, data) (its error
\* is dropped) and draftSavedMsg
saveDraftOfflineCmd ==
    /\ action_seq < MaxActions
    /\ \E localID \in LocalIds \ DOMAIN local_drafts, okDraft \in BOOLEAN, okAction \in BOOLEAN :
        /\ \A a \in pending_actions : a.email_id # localID
        /\ local_drafts' = IF okDraft
                           THEN SaveLocalDraftRows(local_drafts, localID, "f", "t", "s", "b")
                           ELSE local_drafts
        /\ IF okDraft /\ okAction
           THEN /\ pending_actions' = InsertAction(pending_actions, action_seq, clock,
                                                   "save_draft", localID, "data")
                /\ action_seq' = action_seq + 1
                /\ remoteOk' = Put(remoteOk, action_seq + 1, 0)
           ELSE UNCHANGED <<pending_actions, action_seq, remoteOk>>
        /\ delivered' = [cmd |-> "saveDraftOfflineCmd", failing |-> ~okDraft, miss |-> FALSE,
                         msg |-> IF okDraft THEN Msg("draftSavedMsg", "")
                                 ELSE errorMsg("storage error")]
    /\ UNCHANGED <<mailboxes, emails, email_mailboxes, config, clock>>
    /\ UNCHANGED <<replayVars, lastSaved, callerVars, tx, remoteVars, reissued, callOrder, runStart, failed,
                   hasDB, calVars, keys, modelVars, cmds>>

\* the email id replay hands to the Remote Adapter for an action: none for
\* the promotion of a LocalDraft (SaveDraft / SendEmail with existingDraftID
\* ""), the target id otherwise
ReplayCallArg(a) ==
    IF a.type \in {"save_draft", "send"} /\ a.email_id \in LocalIds THEN "" ELSE a.email_id

\* the ids a successful SaveDraft or SendEmail hands back to its caller:
\* both return only an error value
ReturnedIds == {}

\* the promoted draft as an email entry under a returned id
PromotedEmail(id, draft) ==
    [ID |-> id, Date |-> 1, IsUnread |-> FALSE, IsFlagged |-> FALSE,
     Preview |-> draft.body, Body |-> draft.body, MailboxIDs |-> {"m1"}]

\* replay promotes the LocalDraft of the applied action: the action is
\* removed, the LocalDraft row deleted, and an Email row saved for each id
\* the remote call returned
ReplayPromote ==
    /\ replay_pc = "remove"
    /\ replay_list[replay_idx].type \in {"save_draft", "send"}
    /\ replay_list[replay_idx].email_id \in LocalIds
    /\ pending_actions' =
          RemovePendingActionRows(pending_actions, replay_list[replay_idx].id)
    /\ local_drafts' = DeleteLocalDraftRows(local_drafts, replay_list[replay_idx].email_id)
    /\ emails' = SaveEmailsRows(emails,
          IF ReturnedIds = {} \/ replay_list[replay_idx].email_id \notin DOMAIN local_drafts
          THEN <<>>
          ELSE <<PromotedEmail(CHOOSE id \in ReturnedIds : TRUE,
                               local_drafts[replay_list[replay_idx].email_id])>>)
    /\ replay_idx' = replay_idx + 1
    /\ replay_pc' = IF replay_idx + 1 > Len(replay_list) THEN "idle" ELSE "call"
    /\ UNCHANGED <<mailboxes, email_mailboxes, action_seq, config, clock>>
    /\ UNCHANGED <<replay_list, lastSaved, callerVars, tx, remoteVars, replayHist, uiVars>>

InitPromote ==
    /\ InitStore
    /\ InitReplay
    /\ InitHist
    /\ InitModel
    /\ hasDB = TRUE
    /\ m_offlineMode = TRUE

NextPromote ==
    \/ saveDraftOfflineCmd
    \/ Tick
    \/ ReplayStart
    \/ ReplayCallOk
    \/ ReplayCallFail
    \/ ReplayPromote

SpecPromote == InitPromote /\ [][NextPromote]_vars

(***************************************************************************)
(* SpecMembership: the calls that write email rows and membership rows,    *)
(* each as one transaction: SaveEmails with entries as FetchEmails builds  *)
(* them (an email of the server is in at least one mailbox), DeleteEmail   *)
(* and MoveEmail.                                                          *)
(***************************************************************************)
MemberEmailInputs == {e \in SavedEmailInputs : e.MailboxIDs # {}}

StoreFrame ==
    /\ UNCHANGED <<mailboxes, pending_actions, action_seq, local_drafts, config, clock>>
    /\ UNCHANGED <<replayVars, lastSaved, callerVars, tx, remoteVars, replayHist, uiVars>>

DeleteEmail(emailID, ok) ==
    /\ emails' = IF ok THEN DeleteEmailTables(Tables, emailID).emails ELSE emails
    /\ email_mailboxes' = IF ok THEN DeleteEmailTables(Tables, emailID).email_mailboxes
                          ELSE email_mailboxes
    /\ StoreFrame

MoveEmail(emailID, fromMailboxID, toMailboxID, ok) ==
    /\ email_mailboxes' =
          IF ok THEN MoveEmailTables(Tables, emailID, fromMailboxID, toMailboxID).email_mailboxes
          ELSE email_mailboxes
    /\ UNCHANGED emails
    /\ StoreFrame

InitMembership ==
    /\ InitStore
    /\ InitReplay
    /\ InitHist
    /\ InitNoUi

NextMembership ==
    \/ \E batch \in SeqsUpTo(MemberEmailInputs, MaxBatch), ok \in BOOLEAN :
          SaveEmails(batch, ok)
    \/ \E id \in EmailIds, ok \in BOOLEAN : DeleteEmail(id, ok)
    \/ \E id \in EmailIds, from \in MailboxIds, to \in MailboxIds, ok \in BOOLEAN :
          MoveEmail(id, from, to, ok)

SpecMembership == InitMembership /\ [][NextMembership]_vars

(***************************************************************************)
(* SpecMigrate: the schema and the key/value settings.  Open runs migrate  *)
(* on every start, so a store in use already holds the six tables; the     *)
(* other actions fill them.  The database file is a function from the name *)
(* of each table it holds to the rows of that table.                       *)
(***************************************************************************)
SchemaTables ==
    <<"config", "mailboxes", "emails", "email_mailboxes", "pending_actions",
      "local_drafts">>

\* the rows of a table that was just created
EmptyRows(name) ==
    IF name \in {"email_mailboxes", "pending_actions"} THEN {} ELSE EmptyFn

\* DROP TABLE IF EXISTS followed by CREATE TABLE: the rows are gone
CreateTableAfresh(db, name) == Put(db, name, EmptyRows(name))

\* CREATE TABLE IF NOT EXISTS
CreateTableIfNotExists(db, name) ==
    IF name \in DOMAIN db THEN db ELSE Put(db, name, EmptyRows(name))

\* the first k statements of the schema script, run in order; CREATE INDEX
\* IF NOT EXISTS touches no row
RECURSIVE MigratePrefix(_, _)
MigratePrefix(db, k) ==
    IF k = 0 THEN db
    ELSE CreateTableIfNotExists(MigratePrefix(db, k - 1), SchemaTables[k])

MigrateDb(db) == MigratePrefix(db, Len(SchemaTables))

\* the file behind the open store
StoreFile ==
    [config |-> config, mailboxes |-> mailboxes, emails |-> emails,
     email_mailboxes |-> email_mailboxes, pending_actions |-> pending_actions,
     local_drafts |-> local_drafts]

\* migrate: Exec runs the script statement by statement and stops at the
\* first one that fails (ran < 6: the statement after the first ran failed)
migrate(ran) ==
    /\ config' = MigratePrefix(StoreFile, ran).config
    /\ mailboxes' = MigratePrefix(StoreFile, ran).mailboxes
    /\ emails' = MigratePrefix(StoreFile, ran).emails
    /\ email_mailboxes' = MigratePrefix(StoreFile, ran).email_mailboxes
    /\ pending_actions' = MigratePrefix(StoreFile, ran).pending_actions
    /\ local_drafts' = MigratePrefix(StoreFile, ran).local_drafts
    /\ delivered' = [cmd |-> "migrate", failing |-> (ran < Len(SchemaTables)),
                     miss |-> FALSE,
                     msg |-> Msg(IF ran < Len(SchemaTables) THEN "error" ELSE "nil",
                                 StoreFile)]
    /\ UNCHANGED <<action_seq, clock>>
    /\ UNCHANGED <<replayVars, lastSaved, callerVars, tx, remoteVars, replayHist, hasDB, calVars,
                   keys, modelVars, cmds>>

ConfigKeys == {"offline_mode", "theme"}
ConfigValues == {"true", "false"}

\* GetConfig: the value of the row, or "" with a nil error when there is none
GetConfig(key) ==
    IF key \in DOMAIN config THEN [value |-> config[key], err |-> Nil]
    ELSE [value |-> "", err |-> Nil]

\* SetConfig: INSERT OR REPLACE INTO config (key, value)
SetConfig(key, value, ok) ==
    /\ config' = IF ok THEN SetConfigRows(config, key, value) ELSE config
    /\ delivered' = [cmd |-> "SetConfig", failing |-> ~ok, miss |-> FALSE,
                     msg |-> Msg(key, value)]
    /\ UNCHANGED <<mailboxes, emails, email_mailboxes, pending_actions, action_seq,
                   local_drafts, clock>>
    /\ UNCHANGED <<replayVars, lastSaved, callerVars, tx, remoteVars, replayHist, hasDB, calVars,
                   keys, modelVars, cmds>>

CallGetConfig(key) ==
    /\ delivered' = [cmd |-> "GetConfig", failing |-> FALSE,
                     miss |-> (key \notin DOMAIN config),
                     msg |-> Msg(key, GetConfig(key))]
    /\ UNCHANGED <<storeVars, replayVars, lastSaved, callerVars, tx, remoteVars, replayHist, hasDB,
                   calVars, keys, modelVars, cmds>>

\* the emails and mailboxes written to the store here
MigrateEmailInputs == {e \in SavedEmailInputs : e.Date = 1 /\ e.MailboxIDs = {"m1"}}
MigrateMailboxInputs ==
    {mb \in MailboxInputs : mb.ID = "m1" /\ mb.SortOrder = 1 /\ mb.Role = "inbox"}

InitMigrate ==
    /\ InitStore
    /\ InitReplay
    /\ InitHist
    /\ InitNoUi

NextMigrate ==
    \/ \E ran \in 0..Len(SchemaTables) : migrate(ran)
    \/ \E key \in ConfigKeys, value \in ConfigValues, ok \in BOOLEAN :
          SetConfig(key, value, ok)
    \/ \E key \in ConfigKeys : CallGetConfig(key)
    \/ \E e \in MigrateEmailInputs, ok \in BOOLEAN : SaveEmails(<<e>>, ok)
    \/ \E mb \in MigrateMailboxInputs, ok \in BOOLEAN :
          SaveMailboxes(<<mb>>, ok) /\ UNCHANGED callerVars
    \/ saveDraftOfflineCmd

SpecMigrate == InitMigrate /\ [][NextMigrate]_vars

(***************************************************************************)
(* SpecConfig: the settings table under SetConfig and GetConfig, and the   *)
(* settings view that toggles offline mode, with a Local Store present.    *)
(***************************************************************************)
InitConfig ==
    /\ InitStore
    /\ InitReplay
    /\ InitHist
    /\ InitNoUi

NextConfig ==
    \/ \E key \in ConfigKeys, value \in ConfigValues, ok \in BOOLEAN :
          SetConfig(key, value, ok)
    \/ \E key \in ConfigKeys : CallGetConfig(key)
    \/ Key0
    \/ Key4
    \/ EnterSettings

SpecConfig == InitConfig /\ [][NextConfig]_vars
(***************************************************************************)
(* SpecAdapter: the Remote Adapter's mutating calls on the JMAP server.    *)
(* Each call sends one request; the server answers every method of it with *)
(* a method-level error or with a set response that lists, record by       *)
(* record, what it applied and what it did not, or the request fails in    *)
(* transport.  The outcome of each step is the server's choice.            *)
(***************************************************************************)
\* new emails one client creates
MaxCreated == 2

\* the ids the server gives the emails it creates, in order
CreatedIds == <<"n1", "n2", "n3", "n4">>

DraftIds == {"", "d1"}

ServerEmailIds == {"e1", "d1"}

\* the outcome of a request with one Email/set that updates or destroys one
\* email: a transport failure, a method-level error, or a set response in
\* which the email is applied or is listed as not updated / not destroyed
SetOutcomes(emailID) ==
    {o \in [transport : BOOLEAN, methodError : BOOLEAN, applied : BOOLEAN] :
        /\ ~(o.transport /\ o.methodError)
        /\ o.applied => (~o.transport /\ ~o.methodError /\ emailID \in DOMAIN server.emails)}

\* the outcome of a request with an Email/set that destroys the previous
\* draft and creates the new email, followed (for a send) by an
\* EmailSubmission/set that refers to the created email: the lookups before
\* the request, the transport, and each step.  A step of a method that
\* failed as a whole is not applied; a submission needs its email.
SendOutcomes(existingDraftID, submits) ==
    {o \in [ready : BOOLEAN, transport : BOOLEAN, methodError : BOOLEAN,
            destroyed : BOOLEAN, created : BOOLEAN, submitted : BOOLEAN] :
        /\ (~o.ready \/ o.transport \/ o.methodError) =>
                (~o.destroyed /\ ~o.created /\ ~o.submitted)
        /\ ~o.ready => (~o.transport /\ ~o.methodError)
        /\ ~(o.transport /\ o.methodError)
        /\ o.destroyed => existingDraftID \in DOMAIN server.emails
        /\ o.submitted => (o.created /\ submits)}

\* `_, err := c.Client.Do(req); return err`: the response is dropped
MutationErr(o) == o.transport

\* SaveDraft's checks: the Drafts lookup, Do's error, a MethodError among
\* the responses, NotCreated, NotUpdated (the request updates nothing)
SaveDraftErr(existingDraftID, o) ==
    ~o.ready \/ o.transport \/ o.methodError \/ ~o.created

\* SendEmail's checks: the identity and folder lookups, Do's error, a
\* MethodError among the responses, NotDestroyed, NotCreated of the email,
\* NotCreated of the submission
SendEmailErr(existingDraftID, o) ==
    \/ ~o.ready \/ o.transport \/ o.methodError
    \/ (existingDraftID # "" /\ ~o.destroyed)
    \/ ~o.created
    \/ ~o.submitted

\* what the server applies of a destroy-and-create request
ApplyDraft(s, existingDraftID, o) ==
    [s EXCEPT !.emails =
                  LET kept == IF o.destroyed THEN Drop(@, existingDraftID) ELSE @
                  IN  IF o.created
                      THEN Put(kept, CreatedIds[s.created + 1],
                               ServerEmail({"drafts"}, FALSE, FALSE, TRUE))
                      ELSE kept,
              !.created = IF o.created THEN @ + 1 ELSE @]

\* the submission is created: the message goes out, and onSuccessUpdateEmail
\* moves the email from Drafts to Sent
ApplySubmit(s, o) ==
    IF o.submitted
    THEN [s EXCEPT !.emails[CreatedIds[s.created]] = ServerEmail({"sent"}, TRUE, FALSE, FALSE),
                   !.sent = @ + 1]
    ELSE s

Returned(call, id, o, err) ==
    [call |-> call, id |-> id, outcome |-> o, err |-> err,
     sendsOk |-> IF call = "SendEmail" /\ ~err THEN returned.sendsOk + 1
                 ELSE returned.sendsOk]

AdapterFrame ==
    /\ UNCHANGED <<storeVars, replayVars, lastSaved, callerVars, tx, replayHist, uiVars>>

\* Client.DeleteEmail: Email/set destroy [emailID]
ClientDeleteEmail(emailID, o) ==
    /\ server' = IF o.applied THEN [server EXCEPT !.emails = Drop(@, emailID)] ELSE server
    /\ returned' = Returned("DeleteEmail", emailID, o, MutationErr(o))
    /\ AdapterFrame

\* Client.MoveEmail: Email/set update with the mailboxIds patch
ClientMoveEmail(emailID, fromMailboxID, toMailboxID, o) ==
    /\ server' = IF o.applied
                 THEN [server EXCEPT !.emails[emailID].mailboxIds =
                                          MovePatch(@, fromMailboxID, toMailboxID)]
                 ELSE server
    /\ returned' = Returned("MoveEmail", emailID, o, MutationErr(o))
    /\ AdapterFrame

\* Client.SetUnread: keywords/$seen removed to mark unread, set to mark read
ClientSetUnread(emailID, isUnread, o) ==
    /\ server' = IF o.applied THEN [server EXCEPT !.emails[emailID].seen = ~isUnread]
                 ELSE server
    /\ returned' = Returned("SetUnread", emailID, o, MutationErr(o))
    /\ AdapterFrame

\* Client.SetFlagged: keywords/$flagged set or removed
ClientSetFlagged(emailID, isFlagged, o) ==
    /\ server' = IF o.applied THEN [server EXCEPT !.emails[emailID].flagged = isFlagged]
                 ELSE server
    /\ returned' = Returned("SetFlagged", emailID, o, MutationErr(o))
    /\ AdapterFrame

\* Client.SaveDraft: one Email/set that creates the draft and, with an
\* existing draft id, destroys the old one
ClientSaveDraft(existingDraftID, o) ==
    /\ server.created < MaxCreated
    /\ server' = ApplyDraft(server, existingDraftID, o)
    /\ returned' = Returned("SaveDraft", existingDraftID, o, SaveDraftErr(existingDraftID, o))
    /\ AdapterFrame

\* Client.SendEmail: Email/set as in SaveDraft, then EmailSubmission/set for
\* the created email.  The caller sends again only after a reported failure.
ClientSendEmail(existingDraftID, o) ==
    /\ server.created < MaxCreated
    /\ returned.sendsOk = 0
    /\ server' = ApplySubmit(ApplyDraft(server, existingDraftID, o), o)
    /\ returned' = Returned("SendEmail", existingDraftID, o, SendEmailErr(existingDraftID, o))
    /\ AdapterFrame

InitAdapter ==
    /\ InitStore
    /\ InitReplay
    /\ InitHist
    /\ InitNoUi

NextAdapter ==
    \/ \E id \in ServerEmailIds : \E o \in SetOutcomes(id) : ClientDeleteEmail(id, o)
    \/ \E id \in ServerEmailIds, from \in MailboxIds, to \in MailboxIds :
          \E o \in SetOutcomes(id) : ClientMoveEmail(id, from, to, o)
    \/ \E id \in ServerEmailIds, isUnread \in BOOLEAN :
          \E o \in SetOutcomes(id) : ClientSetUnread(id, isUnread, o)
    \/ \E id \in ServerEmailIds, isFlagged \in BOOLEAN :
          \E o \in SetOutcomes(id) : ClientSetFlagged(id, isFlagged, o)
    \/ \E id \in DraftIds : \E o \in SendOutcomes(id, FALSE) : ClientSaveDraft(id, o)
    \/ \E id \in DraftIds : \E o \in SendOutcomes(id, TRUE) : ClientSendEmail(id, o)

SpecAdapter == InitAdapter /\ [][NextAdapter]_vars



(***************************************************************************)
(* C1                                                                      *)
(***************************************************************************)
\* C1: after any sequence of SaveEmails calls, GetEmails(m, 0, large limit)
\* contains email e exactly when m was in the MailboxIDs of the most recent
\* saved entry for e (replace semantics).
C1_MembershipIsLastSaved ==
    \A e \in EmailIds, m \in MailboxIds :
        \A r \in GetEmails(m, 0, LargeLimit) :
            (\E i \in DOMAIN r : r[i].ID = e)
                <=> (e \in DOMAIN lastSaved /\ m \in lastSaved[e])

(***************************************************************************)
(* C2                                                                      *)
(***************************************************************************)
IsAscending(s) == \A i, j \in DOMAIN s : i < j => s[i] < s[j]

\* C2: replay calls the queued actions in creation order (ascending id) and,
\* when it has halted on a failing action, every action of the run created
\* before the failing one is gone from the queue and the failing one and every
\* later one are still queued, unchanged.
C2_ReplayInCreationOrder ==
    /\ IsAscending(callOrder)
    /\ replay_pc = "halted" =>
          \A a \in runStart :
              /\ a.id < failed => a \notin pending_actions
              /\ a.id >= failed => a \in pending_actions

\* three actions were queued, the run halted on the second
C2_HaltedOnSecondOfThree ==
    /\ replay_pc = "halted"
    /\ Cardinality(runStart) = 3
    /\ Len(callOrder) = 2

(***************************************************************************)
(* C3                                                                      *)
(***************************************************************************)
QueuedIds == {a.id : a \in pending_actions}

C5_OfflineMissIsError ==
    delivered.miss => delivered.msg.type = "errorMsg"

(***************************************************************************)
(* C4  offline reads stay local                                            *)
(***************************************************************************)
\* C4: while offline mode is on, no command that calls FetchMailboxes,
\* FetchEmails or FetchEmailBody is issued: with a Local Store present, every
\* online read in flight was returned by Update with m.offlineMode false.
C4_NoRemoteReadOffline ==
    \A i \in DOMAIN cmds :
        (cmds[i].kind \in OnlineReadKinds /\ hasDB) => ~cmds[i].offline

(***************************************************************************)
(* C6  a failed online read delivers the error                             *)
(***************************************************************************)
\* C6: an online read whose remote call failed holds an errorMsg, never a
\* mailboxesLoaded / emailsLoaded / emailBodyLoaded message, and has neither
\* read nor written the Local Store.
C6_FailedReadDeliversError ==
    \A i \in DOMAIN cmds :
        (cmds[i].kind \in OnlineReadKinds /\ cmds[i].rfail)
            => (cmds[i].msg.type = "errorMsg" /\ ~cmds[i].touched)

\* a mailbox list read failed in online mode while the store holds a cached list
C6_ReadFailedWithCache ==
    \E i \in DOMAIN cmds :
        /\ cmds[i].kind = "fetchMailboxesCmd" /\ cmds[i].rfail /\ ~cmds[i].offline
        /\ hasDB /\ DOMAIN mailboxes # {}

(***************************************************************************)
(* C7  write-through before delivery                                       *)
(***************************************************************************)
\* the store reflects the data command c is about to deliver
Stored(c) ==
    IF c.kind = "fetchMailboxesCmd"
        THEN \A k \in DOMAIN c.msg.payload : \A r \in GetMailboxes :
                \E j \in DOMAIN r : r[j] = c.msg.payload[k]
    ELSE IF c.kind \in {"fetchEmailsCmd", "refreshEmailsCmd"}
        THEN \A k \in DOMAIN c.msg.payload : \A r \in GetEmails(c.mb, 0, LargeLimit) :
                \E j \in DOMAIN r : r[j] = c.msg.payload[k]
    ELSE GetEmailBody(c.id) = [err |-> Nil, body |-> c.msg.payload]

\* C7: in online mode with a Local Store, a successful read result waiting to
\* be delivered is in the store: GetMailboxes / GetEmails / GetEmailBody
\* reflect it at delivery time.
C7_DeliveredIsStored ==
    \A i \in DOMAIN cmds :
        (/\ cmds[i].kind \in OnlineReadKinds /\ cmds[i].stage = "msg"
         /\ ~cmds[i].rfail /\ ~cmds[i].offline /\ hasDB)
            => Stored(cmds[i])

(***************************************************************************)
(* C8  mutations are mirrored                                              *)
(***************************************************************************)
\* the store reflects the change command c made remotely
Mirrored(c) ==
    IF c.kind = "deleteEmailCmd"
        THEN \A m \in MailboxIds : c.id \notin MemberIds(m)
    ELSE IF c.kind = "moveEmailCmd"
        THEN c.mb # c.to => (c.id \in MemberIds(c.to) /\ c.id \notin MemberIds(c.mb))
    ELSE IF c.kind = "toggleUnreadCmd"
        THEN \A m \in MailboxIds : \A r \in GetEmails(m, 0, LargeLimit) :
                \A j \in DOMAIN r : r[j].ID = c.id => r[j].IsUnread = c.flag
    ELSE \A m \in MailboxIds : \A r \in GetEmails(m, 0, LargeLimit) :
                \A j \in DOMAIN r : r[j].ID = c.id => r[j].IsFlagged = c.flag

\* C8: in online mode, once delete / move / set unread / set flagged has
\* succeeded remotely for a cached email, the Local Store reflects the change.
C8_MutationIsMirrored ==
    \A i \in DOMAIN cmds :
        (/\ cmds[i].kind \in {"deleteEmailCmd", "moveEmailCmd",
                              "toggleUnreadCmd", "toggleFlaggedCmd"}
         /\ cmds[i].stage = "msg" /\ ~cmds[i].rfail /\ ~cmds[i].offline
         /\ hasDB /\ cmds[i].id \in DOMAIN emails)
            => Mirrored(cmds[i])

(***************************************************************************)
(* C9  a failed mutation leaves the store alone                            *)
(***************************************************************************)
\* C9: the step in which the remote call of a mutating command fails makes the
\* command hold an errorMsg and changes no Local Store table, and neither
\* does the step in which Update issues a mutating command.
C9_FailedMutationLeavesStore ==
    [][/\ \A i \in DOMAIN cmds :
            (/\ cmds[i].kind \in MutateKinds /\ cmds[i].stage = "run"
             /\ Len(cmds') = Len(cmds) /\ cmds'[i].rfail)
                => /\ cmds'[i].stage = "msg" /\ cmds'[i].msg.type = "errorMsg"
                   /\ UNCHANGED <<mailboxes, emails, email_mailboxes,
                                  pending_actions, local_drafts>>
       /\ (/\ Len(cmds') > Len(cmds)
           /\ cmds'[Len(cmds')].kind \in MutateKinds)
                => UNCHANGED <<mailboxes, emails, email_mailboxes,
                               pending_actions, local_drafts>>]_vars

\* a delete issued online for a cached email has failed remotely
C9_MutationFailedOnline ==
    \E i \in DOMAIN cmds :
        /\ cmds[i].kind = "deleteEmailCmd" /\ cmds[i].rfail /\ ~cmds[i].offline
        /\ hasDB /\ cmds[i].id \in DOMAIN emails

(***************************************************************************)
(* C10  offline mutations are local and queued                             *)
(***************************************************************************)
\* C10: in offline mode no mutating action issues a remote call: with a Local
\* Store present, no command that calls DeleteEmail, MoveEmail, SetUnread,
\* SetFlagged, SendEmail or SaveDraft was returned by Update with
\* m.offlineMode true.
C10_OfflineMutationIsLocal ==
    \A i \in DOMAIN cmds :
        (cmds[i].kind \in MutateKinds /\ hasDB) => ~cmds[i].offline

(***************************************************************************)
(* C11  the queue is FIFO                                                  *)
(***************************************************************************)
\* C11: GetPendingActions returns the remaining actions in the order of their
\* AddPendingAction calls, which is ascending id order: every result the
\* query can give lists the ids in strictly increasing order.
C11_QueueIsFifo ==
    \A r \in GetPendingActions :
        \A i, j \in DOMAIN r : i < j => r[i].id < r[j].id

(***************************************************************************)
(* C12  a stale list result is not displayed                               *)
(***************************************************************************)
\* C12: on the email list every displayed email belongs to the mailbox at
\* mbCursor: the result of a fetch for another mailbox is never applied.
C12_DisplayedBelongsToSelected ==
    (m_state = "viewEmails" /\ MailboxInRange)
        => \A k \in DOMAIN m_emails : selectedMB.ID \in m_emails[k].MailboxIDs

(***************************************************************************)
(* C13  a failed mutation is rolled back on the display                    *)
(***************************************************************************)
\* Update consumes the message of command i in this step
Consumed(i) == cmds[i].stage = "msg" /\ cmds' = Without(cmds, i)

\* the email list on display is the list of the mailbox that holds the email
DisplaysMailboxOf(id) ==
    m_state = "viewEmails" /\ MailboxInRange /\ EmailOf(selectedMB.ID) = id

\* C13: when Update processes the failure of a delete or archive whose email
\* was removed from the displayed list, the list contains the email again;
\* when it processes the failure of an unread / flag toggle, the displayed
\* flag is the one from before the toggle.
C13_FailedMutationIsRolledBack ==
    [][\A i \in DOMAIN cmds :
          /\ (/\ cmds[i].kind \in {"deleteEmailCmd", "moveEmailCmd"}
              /\ cmds[i].rfail /\ Consumed(i)
              /\ DisplaysMailboxOf(cmds[i].id)
              /\ \A k \in DOMAIN m_emails : m_emails[k].ID # cmds[i].id)
                => \E k \in DOMAIN m_emails' : m_emails'[k].ID = cmds[i].id
          /\ (/\ cmds[i].kind = "toggleUnreadCmd"
              /\ cmds[i].rfail /\ Consumed(i) /\ Len(cmds) = 1
              /\ DisplaysMailboxOf(cmds[i].id))
                => \A k \in DOMAIN m_emails' :
                      m_emails'[k].ID = cmds[i].id
                          => m_emails'[k].IsUnread = ~cmds[i].flag
          /\ (/\ cmds[i].kind = "toggleFlaggedCmd"
              /\ cmds[i].rfail /\ Consumed(i) /\ Len(cmds) = 1
              /\ DisplaysMailboxOf(cmds[i].id))
                => \A k \in DOMAIN m_emails' :
                      m_emails'[k].ID = cmds[i].id
                          => m_emails'[k].IsFlagged = ~cmds[i].flag]_vars

(***************************************************************************)
(* C14  an error stays until a key press acknowledges it                   *)
(***************************************************************************)
\* the error a failed Remote Adapter call delivers
RemoteError == "remote error"

\* C14: while the error of a failed remote call is set (View then shows the
\* error and nothing else), a step that is not a key press leaves an error
\* set, and a key press, in whatever view, clears it.
C14_ErrorUntilAcknowledged ==
    [][m_err = RemoteError =>
          /\ keys' = keys => m_err' # Nil
          /\ keys' # keys => m_err' = Nil]_vars

(***************************************************************************)
(* C15  navigation is not blocked by an error                              *)
(***************************************************************************)
\* C15: in a navigation view with an error set, the key "0" still goes to the
\* main menu and Esc still goes back: the step of that key is possible.
C15_NavigationNotBlocked ==
    (Alive /\ m_err # Nil /\ keys < MaxKeys
           /\ m_state \in {"viewMailboxes", "viewBody", "viewSettings"})
        => (ENABLED Key0 /\ ENABLED KeyEsc)

(***************************************************************************)
(* C16  the pagination heuristic                                           *)
(***************************************************************************)
\* C16: after Update has processed a page of emails, canLoadMore is true
\* exactly when the page held exactly 20 emails, and the next page is asked
\* for only while canLoadMore is true.
C16_CanLoadMoreIffFullPage ==
    [][/\ \A i \in DOMAIN cmds :
            (Consumed(i) /\ cmds[i].msg.type \in {"emailsLoadedMsg", "emailsRefreshedMsg"})
                => (m_canLoadMore' <=> Len(cmds[i].msg.payload) = 20)
       /\ (/\ m_state = "viewEmails" /\ m_state' = "viewEmails"
           /\ Len(cmds') = Len(cmds) + 1
           /\ cmds'[Len(cmds')].kind = "fetchEmailsCmd")
                => m_canLoadMore]_vars

\* the mailbox of 20 emails after its second page, which was empty
C16_TwentyThenEmpty ==
    /\ m_state = "viewEmails" /\ MailboxInRange /\ selectedMB.ID = "m20"
    /\ Len(m_emails) = 20 /\ ~m_canLoadMore /\ ~m_loading /\ cmds = <<>>

(***************************************************************************)
(* C17: SaveEmails is idempotent.  In every store the program reaches,     *)
(* saving any batch twice leaves the emails table and the membership       *)
(* table exactly as saving it once does; and no GetEmails result for a     *)
(* mailbox lists the same email id twice.                                  *)
(***************************************************************************)
NoRepeatedId(r) == \A i, j \in DOMAIN r : r[i].ID = r[j].ID => i = j

C17_SaveEmailsIdempotent ==
    /\ \A batch \in SeqsUpTo(SavedEmailInputs, MaxBatch) :
        /\ SaveEmailsRows(SaveEmailsRows(emails, batch), batch)
               = SaveEmailsRows(emails, batch)
        /\ SaveEmailsMemberships(SaveEmailsMemberships(email_mailboxes, batch), batch)
               = SaveEmailsMemberships(email_mailboxes, batch)
    /\ \A mb \in MailboxIds : \A r \in GetEmails(mb, 0, LargeLimit) : NoRepeatedId(r)

\* both emails are stored, each a member of both mailboxes, so each mailbox
\* lists two emails
C17_BothEmailsInBothMailboxes ==
    /\ DOMAIN emails = EmailIds
    /\ email_mailboxes = EmailIds \X MailboxIds
    /\ \A mb \in MailboxIds : \E r \in GetEmails(mb, 0, LargeLimit) : Len(r) = 2

(***************************************************************************)
(* C18: mailbox round trip.  After one committed SaveMailboxes call on the *)
(* empty store with a list of distinct ids, every GetMailboxes result      *)
(* holds exactly the saved mailboxes, each with the id, name, role, parent *)
(* id, sort order and unread count that was saved, in ascending sort order *)
(* and, within one sort order, in name order.                              *)
(***************************************************************************)
DistinctIds(list) == \A i, j \in DOMAIN list : list[i].ID = list[j].ID => i = j

C18_MailboxRoundTrip ==
    (saves = 1 /\ DistinctIds(lastList)) =>
        /\ GetMailboxes # {}
        /\ \A r \in GetMailboxes :
            /\ Len(r) = Len(lastList)
            /\ Range(r) = Range(lastList)
            /\ \A i, j \in DOMAIN r : i < j =>
                \/ r[i].SortOrder < r[j].SortOrder
                \/ /\ r[i].SortOrder = r[j].SortOrder
                   /\ NameRank(r[i].Name) <= NameRank(r[j].Name)

\* two mailboxes were saved, the one of the higher sort order first, and the
\* two differ in every field
C18_SavedOutOfOrder ==
    /\ saves = 1 /\ Len(lastList) = 2 /\ DistinctIds(lastList)
    /\ lastList[1].SortOrder > lastList[2].SortOrder
    /\ lastList[1].Name = "Archive" /\ lastList[2].Name = "Inbox"
    /\ lastList[1].Role # lastList[2].Role
    /\ \E r \in GetMailboxes : r[1] = lastList[2] /\ r[2] = lastList[1]

(***************************************************************************)
(* C19: SaveMailboxes is an upsert by id.  Every committed call leaves,    *)
(* for each id of its list, one row carrying the fields of the list's      *)
(* entry for that id; it leaves every other row as it was and adds no      *)
(* other row; and a call that repeats the list of the call before it       *)
(* leaves the table unchanged.  From the empty store this gives, after any *)
(* sequence of calls, one row per id ever saved, carrying the values of    *)
(* the most recent call that contained the id.                             *)
(***************************************************************************)
\* the entry a list holds for an id: the last one when the id is repeated
EntryFor(list, id) ==
    list[CHOOSE k \in DOMAIN list :
            /\ list[k].ID = id
            /\ \A l \in DOMAIN list : list[l].ID = id => l <= k]

CarriesEntry(row, mb) ==
    /\ row.name = mb.Name
    /\ row.role = mb.Role
    /\ row.parent_id = mb.ParentID
    /\ row.sort_order = mb.SortOrder
    /\ row.unread_count = mb.UnreadCount

C19_UpsertById ==
    [][saves' = saves + 1 =>
        /\ DOMAIN mailboxes' = DOMAIN mailboxes \cup {lastList'[k].ID : k \in DOMAIN lastList'}
        /\ \A id \in DOMAIN mailboxes' :
            IF \E k \in DOMAIN lastList' : lastList'[k].ID = id
            THEN CarriesEntry(mailboxes'[id], EntryFor(lastList', id))
            ELSE mailboxes'[id] = mailboxes[id]
        /\ (saves >= 1 /\ lastList' = lastList) => mailboxes' = mailboxes]_vars

\* the latest call saved one mailbox anew with other values while the row
\* of the other mailbox, saved by an earlier call, is still stored
C19_EarlierRowKept ==
    /\ saves = 3 /\ Len(lastList) = 1 /\ lastList[1].ID = "m1"
    /\ DOMAIN mailboxes = MailboxIds
    /\ mailboxes["m1"].name = "Archive" /\ mailboxes["m1"].sort_order = 2
    /\ mailboxes["m2"].name = "Inbox" /\ mailboxes["m2"].sort_order = 1

(***************************************************************************)
(* C20: GetEmails pages.  Every result of GetEmails(mailbox, offset,       *)
(* limit) holds at most limit emails, all members of the mailbox, newest   *)
(* date first; and when the pages at offsets 0, limit, 2*limit, ... are    *)
(* read one call after the other from an unchanged store, every member of  *)
(* the mailbox is on exactly one page, exactly once.                       *)
(***************************************************************************)
MaxLimit == 2

\* the page offsets a reader of the whole mailbox asks for
PageIndexes(mailboxID, limit) == 0..(Cardinality(MemberIds(mailboxID)) \div limit)

\* one result for each call of a reader that pages through the mailbox
Readings(mailboxID, limit) ==
    {f \in [PageIndexes(mailboxID, limit) ->
                UNION {GetEmails(mailboxID, k * limit, limit) :
                          k \in PageIndexes(mailboxID, limit)}] :
        \A k \in PageIndexes(mailboxID, limit) :
            f[k] \in GetEmails(mailboxID, k * limit, limit)}

\* the places of a reading that show the email id
PlacesOf(f, id) ==
    {<<k, i>> \in (DOMAIN f) \X (1..MaxLimit) : i \in DOMAIN f[k] /\ f[k][i].ID = id}

C20_PagesCoverMembersOnce ==
    \A mb \in MailboxIds : \A limit \in 1..MaxLimit :
        /\ \A offset \in 0..MaxLimit : \A r \in GetEmails(mb, offset, limit) :
            /\ Len(r) <= limit
            /\ \A i \in DOMAIN r : r[i].ID \in MemberIds(mb)
            /\ \A i, j \in DOMAIN r : i < j => r[i].Date >= r[j].Date
        /\ \A f \in Readings(mb, limit) :
            /\ \A id \in MemberIds(mb) : Cardinality(PlacesOf(f, id)) = 1
            /\ \A k \in DOMAIN f : \A i \in DOMAIN f[k] : f[k][i].ID \in MemberIds(mb)

\* the part of C20 about one call alone
C20_EachPageSorted ==
    \A mb \in MailboxIds : \A limit \in 1..MaxLimit :
        \A offset \in 0..MaxLimit : \A r \in GetEmails(mb, offset, limit) :
            /\ Len(r) <= limit
            /\ \A i \in DOMAIN r : r[i].ID \in MemberIds(mb)
            /\ \A i, j \in DOMAIN r : i < j => r[i].Date >= r[j].Date
            /\ Len(r) = (IF Cardinality(MemberIds(mb)) - offset < 0 THEN 0
                         ELSE IF Cardinality(MemberIds(mb)) - offset > limit THEN limit
                         ELSE Cardinality(MemberIds(mb)) - offset)

(***************************************************************************)
(* C21: GetEmailBody on a cached email.  The result is the cached body     *)
(* when that is not empty; else, when the preview is not empty, the fixed  *)
(* degraded-marker prefix followed by the preview; and it is the fixed     *)
(* not-available sentinel exactly when body and preview are both empty.    *)
(* Stated for every cached email of every store the program reaches.       *)
(***************************************************************************)
BodyResultFits(id, r) ==
    /\ r.err = Nil
    /\ emails[id].body_text # "" => r.body = emails[id].body_text
    /\ (emails[id].body_text = "" /\ emails[id].preview # "") =>
           /\ r.body = "[Full email body not cached - showing preview]\n\n"
                           \o emails[id].preview
           /\ r.body # "[Email body not available offline]"
    /\ r.body = "[Email body not available offline]"
           <=> (emails[id].body_text = "" /\ emails[id].preview = "")

C21_BodyPreviewOrSentinel ==
    \A id \in DOMAIN emails : BodyResultFits(id, GetEmailBody(id))

\* e1 is cached with a preview and no body, e2 with neither, and the latest
\* call returned the marked preview of e1
C21_DegradedDelivered ==
    /\ DOMAIN emails = EmailIds
    /\ emails["e1"].body_text = "" /\ emails["e1"].preview = "p"
    /\ emails["e2"].body_text = "" /\ emails["e2"].preview = ""
    /\ delivered.cmd = "GetEmailBody" /\ delivered.msg.type = "e1"
    /\ delivered.msg.payload.body = DegradedPrefix \o "p"
    /\ GetEmailBody("e2").body = NoBodySentinel

(***************************************************************************)
(* C22: the body cache is independent of the message row.  When the        *)
(* write-through of an online list fetch or refresh (SaveEmails of entries *)
(* with an empty Body) runs, every email that had a cached body keeps it:  *)
(* GetEmailBody returns the same text after the step as before it.         *)
(***************************************************************************)
ListWriteThrough(i) ==
    /\ cmds[i].kind \in {"fetchEmailsCmd", "refreshEmailsCmd"}
    /\ cmds[i].stage = "store"
    /\ Len(cmds') = Len(cmds)
    /\ cmds'[i].stage = "msg"

C22_ListSaveKeepsBody ==
    [][\A i \in DOMAIN cmds : ListWriteThrough(i) =>
          \A id \in DOMAIN emails :
              emails[id].body_text # "" =>
                  /\ id \in DOMAIN emails'
                  /\ emails'[id].body_text = emails[id].body_text]_vars

(***************************************************************************)
(* C23: the multi-row writes are atomic.  While a SaveMailboxes,           *)
(* SaveEmails, DeleteEmail or MoveEmail call is running, the tables a      *)
(* reader sees are the tables as they were before the call; every read     *)
(* made during the call returns the complete state before the call or the  *)
(* complete state after it; and when the call ends the tables are the      *)
(* complete result of the call if it committed and exactly the tables      *)
(* before the call if any statement or the commit failed.                  *)
(***************************************************************************)
C23_WritesAreAtomic ==
    [][tx.op # "none" =>
        /\ Tables = tx.pre
        /\ delivered' # delivered =>
              delivered'.msg.payload \in {tx.pre, PostOf(tx.call, tx.pre)}
        /\ tx'.op = "none" =>
              Tables' = IF tx'.outcome = "committed"
                        THEN PostOf(tx.call, tx.pre) ELSE tx.pre]_vars

\* SaveEmails has written the row of e1 and not yet its membership rows, a
\* reader has just read the tables, and the row is not in what it read
C23_ReadBetweenRowAndMemberships ==
    /\ tx.op = "SaveEmails"
    /\ "e1" \in DOMAIN tx.work.emails
    /\ \A mb \in MailboxIds : <<"e1", mb>> \notin tx.work.email_mailboxes
    /\ delivered.cmd = "read" /\ delivered.msg.type = Len(tx.stmts)
    /\ "e1" \notin DOMAIN delivered.msg.payload.emails

(***************************************************************************)
(* C24: promotion of a LocalDraft at replay.  When replay completes, after *)
(* a successful remote call, the step for a send or save-draft action      *)
(* queued under a local-only id, then after that step the action is no     *)
(* longer queued, no LocalDraft row has the local-only id and an Email row *)
(* exists under an id the remote service assigned; and no remote call of   *)
(* replay is handed a local-only id as its email id.                       *)
(***************************************************************************)
PromotionStep ==
    /\ replay_pc = "remove"
    /\ replay_pc' # "remove"
    /\ replay_list[replay_idx].type \in {"save_draft", "send"}
    /\ replay_list[replay_idx].email_id \in LocalIds

C24_PromotionLeavesEmail ==
    [][/\ PromotionStep =>
            /\ replay_list[replay_idx] \notin pending_actions'
            /\ replay_list[replay_idx].email_id \notin DOMAIN local_drafts'
            /\ \E id \in DOMAIN emails' : id \notin LocalIds
       /\ replay_pc = "call" => ReplayCallArg(replay_list[replay_idx]) \notin LocalIds]_vars

\* the parts of C24 that do not need the id of the new email
C24_PromotionRetiresDraft ==
    [][/\ PromotionStep =>
            /\ replay_list[replay_idx] \notin pending_actions'
            /\ replay_list[replay_idx].email_id \notin DOMAIN local_drafts'
       /\ replay_pc = "call" => ReplayCallArg(replay_list[replay_idx]) \notin LocalIds]_vars

Extends(base) ==
    /\ Len(cmds') >= Len(base)
    /\ SubSeq(cmds', 1, Len(base)) = base

Added(base) == SubSeq(cmds', Len(base) + 1, Len(cmds'))

\* a command ran one of its stages: the commands in flight are the same ones
InPlace ==
    /\ Len(cmds') = Len(cmds)
    /\ \A k \in DOMAIN cmds : cmds'[k].kind = cmds[k].kind

C26_OneCallPerMutation ==
    [][/\ keys' # keys =>
            /\ Extends(cmds)
            /\ (\E k \in DOMAIN Added(cmds) : Added(cmds)[k].kind \in MutateKinds)
                   => Len(Added(cmds)) = 1
       /\ \A i \in DOMAIN cmds :
            (/\ cmds[i].kind \in MutateKinds
             /\ keys' = keys /\ ~InPlace
             /\ Extends(Without(cmds, i)))
                => /\ cmds[i].stage = "msg"
                   /\ Len(Added(Without(cmds, i))) <= 1
                   /\ \A k \in DOMAIN Added(Without(cmds, i)) :
                        /\ Added(Without(cmds, i))[k].kind = "fetchMailboxesCmd"
                        /\ Added(Without(cmds, i))[k].stage = "run"]_vars

\* three keys were pressed (mail, open the mailbox, delete), the delete has
\* returned and been consumed, and the mailbox refresh that follows it is
\* the one command in flight
C26_RefreshAfterDelete ==
    /\ keys = 3 /\ m_state = "viewEmails" /\ m_emails = <<>> /\ ~m_loading
    /\ m_err = Nil
    /\ Len(cmds) = 1 /\ cmds[1].kind = "fetchMailboxesCmd" /\ cmds[1].stage = "run"
    /\ DOMAIN emails # {}

\* C27: while offline mode is on, Update issues no calendar or contacts
\* command, the automatic follow-up of a result that arrives after the user
\* switched to offline mode included: every such command in flight was
\* issued with m.offlineMode false.
C27_NoCalendarCallOffline ==
    \A i \in DOMAIN cmds :
        cmds[i].kind \in CalendarContactKinds => ~cmds[i].offline

\* Update handles the error message of command i: the other commands in
\* flight stay as they are, command i is taken away (with or without new
\* commands after the rest) or is changed where it stands
ErrorStep(i) ==
    /\ Ready(i, "errorMsg") /\ keys' = keys
    /\ \/ Extends(Without(cmds, i))
       \/ /\ Len(cmds') >= Len(cmds)
          /\ cmds'[i] # cmds[i]
          /\ \A k \in DOMAIN cmds \ {i} : cmds'[k] = cmds[k]

C29_MigrateKeepsRows ==
    /\ [][(delivered'.cmd = "migrate" /\ delivered' # delivered) =>
            /\ StoreFile' = StoreFile
            /\ delivered'.msg.payload = StoreFile
            /\ (~delivered'.failing => delivered'.msg.type = "nil")]_vars
    /\ [](/\ MigrateDb(StoreFile) = StoreFile
          /\ MigrateDb(MigrateDb(StoreFile)) = StoreFile)

\* migrate has just run on a store with rows in each of the six tables
C29_MigratedPopulatedStore ==
    /\ delivered.cmd = "migrate" /\ ~delivered.failing
    /\ delivered.msg.payload = StoreFile
    /\ DOMAIN config # {} /\ DOMAIN mailboxes # {} /\ DOMAIN emails # {}
    /\ email_mailboxes # {} /\ pending_actions # {} /\ DOMAIN local_drafts # {}

\* the value stored under a key, as GetConfig reads it in the next state
ValueAfter(key) == IF key \in DOMAIN config' THEN config'[key] ELSE ""

\* C30 (the part on GetConfig and SetConfig): GetConfig of a key that was
\* never set returns "" and no error; after a SetConfig(k, v) that succeeded
\* GetConfig(k) returns v and every other key reads as before.
C30_GetAfterSet ==
    /\ [](\A key \in ConfigKeys :
            key \notin DOMAIN config => GetConfig(key) = [value |-> "", err |-> Nil])
    /\ [][(delivered'.cmd = "SetConfig" /\ delivered' # delivered
                /\ ~delivered'.failing) =>
            /\ ValueAfter(delivered'.msg.type) = delivered'.msg.payload
            /\ \A key \in ConfigKeys \ {delivered'.msg.type} :
                  ValueAfter(key) = GetConfig(key).value]_vars

\* C30: the offline-mode setting round-trips through the settings table:
\* GetConfig and SetConfig behave as above, and after a settings toggle with
\* a Local Store present the stored offline_mode is "true" exactly when
\* the in-memory offlineMode flag is true.
C30_ToggleIsStored ==
    /\ C30_GetAfterSet
    /\ [][(m_offlineMode' # m_offlineMode /\ hasDB) =>
            (ValueAfter("offline_mode") = "true" <=> m_offlineMode')]_vars

\* the list s without the action of the given id
Unqueued(s, id) == SelectSeq(s, LAMBDA a : a.id # id)

\* C31: RemovePendingAction(id) removes exactly the action with that id:
\* every other queued action stays, with its type, target and payload, and
\* the orders GetPendingActions can return afterwards are the earlier ones
\* with that action left out; removing an id that is not queued changes
\* nothing and returns no error.
C31_RemoveExactlyThatAction ==
    [][(action_seq' = action_seq /\ clock' = clock
            /\ delivered'.cmd = "RemovePendingAction" /\ ~delivered'.failing) =>
         /\ pending_actions' = {a \in pending_actions : a.id # delivered'.msg.payload}
         /\ GetPendingActions' =
                {Unqueued(s, delivered'.msg.payload) : s \in GetPendingActions}
         /\ delivered'.msg.type = "nil"
         /\ delivered'.miss => pending_actions' = pending_actions]_vars

\* one action was added to the empty queue and removed by its id: the queue
\* is empty again
C31_AddedThenRemoved ==
    /\ action_seq = 1 /\ pending_actions = {}
    /\ delivered.cmd = "RemovePendingAction" /\ ~delivered.miss
    /\ delivered.msg = Msg("nil", 1)

\* the second of three queued actions was removed, the others are left
C31_MiddleRemoved ==
    /\ action_seq = 3 /\ {a.id : a \in pending_actions} = {1, 3}
    /\ delivered.cmd = "RemovePendingAction" /\ delivered.msg = Msg("nil", 2)

\* Update takes the body result of command i from the runtime
BodyStep(i) ==
    Ready(i, "emailBodyLoadedMsg") /\ keys' = keys /\ cmds' = Without(cmds, i)

\* C32: a body result is applied to the body view only if it was requested
\* for the email under the cursor: when Update sets m.bodyContent from the
\* result of fetchEmailBodyCmd(id), emails[emailCursor] exists and is id.
C32_BodyOfSelectedEmail ==
    [][\A i \in DOMAIN cmds :
          (BodyStep(i) /\ m_bodyContent' = cmds[i].msg.payload) =>
              (EmailInRange /\ selectedEmail.ID = cmds[i].id)]_vars

\* C33: the cursors are safe indexes: Update never indexes m.mailboxes or
\* m.emails past the end (the program never panics), mbCursor is below
\* len(mailboxes) whenever the mailbox list is not empty and emailCursor is
\* below len(emails) whenever the email list is not empty.
C33_CursorsInRange ==
    /\ Alive
    /\ Len(m_mailboxes) > 0 => MailboxInRange
    /\ Len(m_emails) > 0 => EmailInRange

\* the page fetches in flight for a mailbox
PageFetches(mailboxID) ==
    {i \in DOMAIN cmds : cmds[i].kind = "fetchEmailsCmd" /\ cmds[i].mb = mailboxID}

\* C34: at most one page fetch for the open mailbox is in flight, the
\* loading flag is true as long as a page fetch is in flight, whatever other
\* results arrive meanwhile, and no email id is displayed twice.
C34_OnePageFetchAtATime ==
    Alive =>
        /\ (m_state = "viewEmails" /\ MailboxInRange) =>
                Cardinality(PageFetches(selectedMB.ID)) <= 1
        /\ \A i \in DOMAIN cmds : cmds[i].kind = "fetchEmailsCmd" => m_loading
        /\ \A j, k \in DOMAIN m_emails : j # k => m_emails[j].ID # m_emails[k].ID

\* the mailboxes for which GetEmails lists an email
ListedIn(id) == {m \in MailboxIds : id \in MemberIds(m)}

\* C35: the MailboxIDs field of every email GetEmails returns (the
\* mailbox_ids column) is the set of mailboxes for which GetEmails lists
\* that email (the email_mailboxes rows), also after MoveEmail and after
\* SaveEmails calls with different membership sets.
C35_MembershipsAgree ==
    \A m \in MailboxIds : \A r \in GetEmails(m, 0, LargeLimit) :
        \A k \in DOMAIN r : r[k].MailboxIDs = ListedIn(r[k].ID)

\* the mailboxes an email has membership rows for
RowsOf(em, id) == {m \in MailboxIds : <<id, m>> \in em}

\* C36: a committed local MoveEmail(id, from, to) leaves id a member of to and,
\* when from is another mailbox, not a member of from; every other membership
\* row, every email row and every other table are as before; with from equal
\* to to the email is still a member of that mailbox.  The memberships of id
\* afterwards are the ones the remote patch of the same move gives.
C36_MoveChangesOnlyFromAndTo ==
    [][\A id \in EmailIds, from \in MailboxIds, to \in MailboxIds :
          MoveEmail(id, from, to, TRUE) =>
              /\ <<id, to>> \in email_mailboxes'
              /\ from # to => <<id, from>> \notin email_mailboxes'
              /\ \A p \in email_mailboxes \cup email_mailboxes' :
                    p \notin {<<id, from>>, <<id, to>>} =>
                        (p \in email_mailboxes <=> p \in email_mailboxes')
              /\ RowsOf(email_mailboxes', id) = MovePatch(RowsOf(email_mailboxes, id), from, to)
              /\ emails' = emails
              /\ mailboxes' = mailboxes
              /\ id \in DOMAIN emails => id \in MemberIds(to)']_vars

\* e1 was saved as a member of both mailboxes and moved out of m1 while e2
\* stayed in m1: e1 has the row of m2 alone, e2's row is untouched
C36_MovedOutOfOneMailbox ==
    /\ "e1" \in DOMAIN emails /\ "e2" \in DOMAIN emails
    /\ emails["e1"].mailbox_ids = {"m1", "m2"}
    /\ RowsOf(email_mailboxes, "e1") = {"m2"}
    /\ emails["e2"].mailbox_ids = {"m1"}
    /\ RowsOf(email_mailboxes, "e2") = {"m1"}

\* the LocalDraft has a queued save_draft action that targets its id
HasQueuedSave(acts, localID) ==
    \E a \in acts : a.type = "save_draft" /\ a.email_id = localID

\* C37: saving a draft offline is all-or-nothing.  A step of
\* saveDraftOfflineCmd that leaves a new LocalDraft row reports draftSavedMsg
\* and leaves a save_draft action for the same id; and in every state each
\* LocalDraft has a queued save_draft action.
C37_DraftSaveAllOrNothing ==
    /\ [](\A localID \in DOMAIN local_drafts : HasQueuedSave(pending_actions, localID))
    /\ [][\A localID \in LocalIds :
            (localID \in DOMAIN local_drafts' \ DOMAIN local_drafts) =>
                /\ delivered'.msg.type = "draftSavedMsg"
                /\ HasQueuedSave(pending_actions', localID)]_vars

\* C38: SendEmail reports an error only when the message was not submitted.
\* Whatever the server did with the destroy of the previous draft, the
\* creation of the email and the creation of the submission, a call in which
\* the submission was created returns nil; so every message that went out was
\* reported as sent, and a caller who sends again only after a reported
\* failure never sends the message twice.
C38_ErrorOnlyWhenNotSubmitted ==
    /\ (returned.call = "SendEmail" /\ returned.outcome.submitted) => ~returned.err
    /\ server.sent <= returned.sendsOk
    /\ server.sent <= 1

SetCalls == {"DeleteEmail", "MoveEmail", "SetUnread", "SetFlagged"}

\* C39: the Remote Adapter reports a mutation as successful only if the
\* server applied it.  DeleteEmail, MoveEmail, SetUnread and SetFlagged
\* return an error whenever the response carries a method-level error or
\* lists the email as not destroyed / not updated; SaveDraft with an existing
\* draft id returns an error whenever the old draft was not destroyed, so
\* after a reported success the old draft is gone.
C39_SuccessOnlyIfApplied ==
    /\ (returned.call \in SetCalls /\ ~returned.outcome.applied) => returned.err
    /\ (returned.call = "SaveDraft" /\ returned.id # "" /\ ~returned.outcome.destroyed)
            => returned.err
    /\ (returned.call = "SaveDraft" /\ returned.id # "" /\ ~returned.err)
            => returned.id \notin DOMAIN server.emails

====
